---------------------------- MODULE Spec2Model ----------------------------
(***************************************************************************)
(* Model of the PPP data service (src/src/services/ppp-data.ts): the       *)
(* module-level cache, the single-flight fetch coordinator                 *)
(* fetchAndCachePPPData, the spreadsheet parse it performs, and the five   *)
(* query operations built on it.                                           *)
(*                                                                         *)
(* JavaScript strings are modelled as sequences of one-character strings,  *)
(* so that trim(), length, the year regular expression, parseInt and       *)
(* String(x) are computed as the code computes them.  Array indices keep   *)
(* their JavaScript (0-based) values; At(row, i) reads row[i].             *)
(***************************************************************************)
EXTENDS Integers, Sequences, FiniteSets, TLC

-----------------------------------------------------------------------------
(* Bounds of the model.                                                    *)

\* number of concurrent logical callers of the query layer
NumCallers == 2
\* number of population attempts (IIFE instances) a behaviour may start
MaxAttempts == 2
\* number of data rows after the header row in an enumerated sheet
MaxDataRows == 2
\* number of calculations the user of the page submits
MaxSubmits == 2

-----------------------------------------------------------------------------
(* Strings.                                                                *)

Digits == <<"0", "1", "2", "3", "4", "5", "6", "7", "8", "9">>

IsDigit(c) == \E i \in 1..10 : Digits[i] = c

DigitVal(c) == (CHOOSE i \in 1..10 : Digits[i] = c) - 1

\* String.prototype.trim on the white space the model's strings contain
RECURSIVE TrimLeft(_)
TrimLeft(s) ==
    IF s # <<>> /\ Head(s) = " " THEN TrimLeft(Tail(s)) ELSE s

RECURSIVE TrimRight(_)
TrimRight(s) ==
    IF s # <<>> /\ s[Len(s)] = " " THEN TrimRight(SubSeq(s, 1, Len(s) - 1)) ELSE s

Trim(s) == TrimRight(TrimLeft(s))

\* decimal digits of a natural number
RECURSIVE NatToString(_)
NatToString(n) ==
    IF n < 10 THEN <<Digits[n + 1]>>
    ELSE NatToString(n \div 10) \o <<Digits[(n % 10) + 1]>>

\* Number.prototype.toString for the integers of the model
IntToString(n) == IF n < 0 THEN <<"-">> \o NatToString(0 - n) ELSE NatToString(n)

\* parseInt(s, 10) of a string the caller has matched against /^\d+$/
RECURSIVE ParseInt(_)
ParseInt(s) ==
    IF s = <<>> THEN 0
    ELSE 10 * ParseInt(SubSeq(s, 1, Len(s) - 1)) + DigitVal(s[Len(s)])

UpperCase == <<"A", "B", "C", "D", "E", "F", "G", "H", "I", "J", "K", "L", "M",
               "N", "O", "P", "Q", "R", "S", "T", "U", "V", "W", "X", "Y", "Z">>
LowerCase == <<"a", "b", "c", "d", "e", "f", "g", "h", "i", "j", "k", "l", "m",
               "n", "o", "p", "q", "r", "s", "t", "u", "v", "w", "x", "y", "z">>

ToLowerChar(c) ==
    IF \E i \in 1..26 : UpperCase[i] = c
    THEN LowerCase[CHOOSE i \in 1..26 : UpperCase[i] = c]
    ELSE c

\* String.prototype.toLowerCase
ToLowerCase(s) == [i \in 1..Len(s) |-> ToLowerChar(s[i])]

\* String.prototype.includes
Includes(s, sub) ==
    \E i \in 0..(Len(s) - Len(sub)) : SubSeq(s, i + 1, i + Len(sub)) = sub

\* the string literals of the source
STR_Data == <<"D", "a", "t", "a">>
STR_Sheet1 == <<"S", "h", "e", "e", "t", "1">>
STR_API == <<"A", "P", "I", "_", "P", "A", ".", "N", "U", "S", ".", "P", "P", "P",
             "_", "D", "S", "2", "_", "e", "n", "_", "e", "x", "c", "e", "l", "_",
             "v", "2">>
STR_metadata == <<"m", "e", "t", "a", "d", "a", "t", "a">>
STR_LastUpdatedDate == <<"L", "a", "s", "t", " ", "U", "p", "d", "a", "t", "e", "d",
                         " ", "D", "a", "t", "e">>
STR_CountryName == <<"C", "o", "u", "n", "t", "r", "y", " ", "N", "a", "m", "e">>
STR_CountryCode == <<"C", "o", "u", "n", "t", "r", "y", " ", "C", "o", "d", "e">>
STR_undefined == <<"u", "n", "d", "e", "f", "i", "n", "e", "d">>
STR_NaN == <<"N", "a", "N">>


-----------------------------------------------------------------------------
(* Cells and workbooks.  A workbook is what XLSX.read returns, each sheet  *)
(* already in the array-of-arrays form of XLSX.utils.sheet_to_json with    *)
(* header: 1 (a blank cell is undefined).                                  *)

Str(s) == [t |-> "string", s |-> s, n |-> 0, nan |-> FALSE]
Num(n) == [t |-> "number", s |-> <<>>, n |-> n, nan |-> FALSE]
NaNCell == [t |-> "number", s |-> <<>>, n |-> 0, nan |-> TRUE]
Undef == [t |-> "undefined", s |-> <<>>, n |-> 0, nan |-> FALSE]

\* row[i] of a JavaScript array: undefined past the end
At(row, i) == IF i >= 0 /\ i < Len(row) THEN row[i + 1] ELSE Undef

\* String(value)
StringOf(c) ==
    CASE c.t = "string" -> c.s
      [] c.t = "number" -> IF c.nan THEN STR_NaN ELSE IntToString(c.n)
      [] OTHER -> STR_undefined

\* Array.prototype.findIndex: first 0-based index whose element satisfies Test, or -1
FindIndex(seq, Test(_)) ==
    IF \E i \in 1..Len(seq) : Test(seq[i])
    THEN (CHOOSE i \in 1..Len(seq) : Test(seq[i]) /\ \A j \in 1..(i - 1) : ~Test(seq[j])) - 1
    ELSE -1

\* Array.prototype.slice(from, to)
Slice(seq, from, to) ==
    IF from >= Len(seq) \/ to <= from THEN <<>>
    ELSE SubSeq(seq, from + 1, IF to < Len(seq) THEN to ELSE Len(seq))

\* Array.prototype.filter
Filter(seq, Test(_)) ==
    LET kept == {i \in 1..Len(seq) : Test(seq[i])}
        Nth(k) == CHOOSE i \in kept : Cardinality({j \in kept : j < i}) = k - 1
    IN  [k \in 1..Cardinality(kept) |-> seq[Nth(k)]]

Max(a, b) == IF a >= b THEN a ELSE b

\* Math.max(...seq, 0)
RECURSIVE MaxOf(_)
MaxOf(seq) == IF seq = <<>> THEN 0 ELSE Max(Head(seq), MaxOf(Tail(seq)))

-----------------------------------------------------------------------------
(* The parse performed inside fetchAndCachePPPData (lines 94-227).         *)

potentialSheetNames == <<STR_Data, STR_Sheet1, STR_API>>

SheetNamesInclude(wb, name) == \E i \in 1..Len(wb.SheetNames) : wb.SheetNames[i] = name

\* workbook.Sheets[name]
SheetByName(wb, name) ==
    wb.Sheets[CHOOSE i \in 1..Len(wb.SheetNames) : wb.SheetNames[i] = name]

\* lines 96-119: the name of the sheet that is used, or the empty string
\* when no sheet is selected (sheet stays null)
SelectSheetName(wb) ==
    IF \E k \in 1..Len(potentialSheetNames) : SheetNamesInclude(wb, potentialSheetNames[k])
    THEN potentialSheetNames[
             CHOOSE k \in 1..Len(potentialSheetNames) :
                 /\ SheetNamesInclude(wb, potentialSheetNames[k])
                 /\ \A j \in 1..(k - 1) : ~SheetNamesInclude(wb, potentialSheetNames[j])]
    ELSE IF Len(wb.SheetNames) > 0
         THEN IF ~Includes(ToLowerCase(wb.SheetNames[1]), STR_metadata)
              THEN wb.SheetNames[1]
              ELSE IF Len(wb.SheetNames) > 1 THEN wb.SheetNames[2] ELSE <<>>
         ELSE <<>>

\* line 122: if (!sheet) throw
SheetFound(wb) == SheetNamesInclude(wb, SelectSheetName(wb))

\* lines 131-138: the trimmed neighbour of the first "Last Updated Date" cell
\* in the first 5 rows; the empty string stands for null (both are falsy at
\* line 243, the only place the value is read)
IsLastUpdatedRow(row) ==
    /\ At(row, 0).t = "string"
    /\ Trim(At(row, 0).s) = STR_LastUpdatedDate
    /\ Len(row) > 1

FindLastUpdatedTimestamp(jsonData) ==
    LET metadataRows == Slice(jsonData, 0, 5)
        i == FindIndex(metadataRows, IsLastUpdatedRow)
    IN  IF i = -1 THEN <<>> ELSE Trim(StringOf(At(metadataRows[i + 1], 1)))

\* line 142
IsHeaderRow(row) == Trim(StringOf(At(row, 0))) = STR_CountryName

DataStartIndexRaw(jsonData) == FindIndex(jsonData, IsHeaderRow)

\* line 148
Headers(jsonData) ==
    LET hr == jsonData[DataStartIndexRaw(jsonData) + 1]
    IN  [i \in 1..Len(hr) |-> Trim(StringOf(hr[i]))]

IsCountryNameHeader(h) == h = STR_CountryName
IsCountryCodeHeader(h) == h = STR_CountryCode

\* lines 152-153
CountryNameIndex(headers) == FindIndex(headers, IsCountryNameHeader)
CountryCodeIndex(headers) == FindIndex(headers, IsCountryCodeHeader)

\* first year a column may carry (line 157)
MinYear == 1990

\* a bug: line 157 without the test against 1990
IsYearHeaderAnyYear(h) ==
    /\ Len(h) = 4
    /\ \A i \in 1..4 : IsDigit(h[i])

\* line 157: /^\d{4}$/.test(header) && parseInt(header, 10) >= 1990
IsYearHeader(h) ==
    /\ Len(h) = 4
    /\ \A i \in 1..4 : IsDigit(h[i])
    /\ ParseInt(h) >= MinYear

IsYearColumn(yc) == IsYearHeader(yc.header)

\* lines 155-157
YearColumns(headers) ==
    Filter([i \in 1..Len(headers) |-> [header |-> headers[i], index |-> i - 1]],
           IsYearColumn)

\* line 167
Years(yearColumns) == [i \in 1..Len(yearColumns) |-> ParseInt(yearColumns[i].header)]

\* a bug: the year of the first year column instead of the greatest
FirstYear(years) == IF years = <<>> THEN 0 ELSE Head(years)

\* line 168: Math.max(...years, 0)
LatestAvailableYear(years) == MaxOf(years)

\* line 169: new Map(...): a later column of the same year replaces an earlier one
YearIndex(yearColumns, year) ==
    yearColumns[CHOOSE i \in 1..Len(yearColumns) :
                    /\ ParseInt(yearColumns[i].header) = year
                    /\ \A j \in (i + 1)..Len(yearColumns) :
                           ParseInt(yearColumns[j].header) # year].index

\* a bug: line 209 tests raw >= 0
IsValidFactorAllowZero(raw) == raw.t = "number" /\ ~raw.nan /\ raw.n >= 0

\* line 209: typeof raw === 'number' && !isNaN(raw) && raw > 0
IsValidFactor(raw) == raw.t = "number" /\ ~raw.nan /\ raw.n > 0

\* line 185: countryName && countryCode && countryCode.length === 3
IsValidRow(countryName, countryCode) ==
    countryName # <<>> /\ countryCode # <<>> /\ Len(countryCode) = 3

\* {}: an object with no own keys
EmptyObject == [k \in {} |-> 0]

\* lines 211-214: tempPppDataCache[year][countryCode] = value
PutFactor(ppp, year, countryCode, value) ==
    LET yearData == IF year \in DOMAIN ppp THEN ppp[year] ELSE EmptyObject
        newYearData == [c \in (DOMAIN yearData) \cup {countryCode} |->
                            IF c = countryCode THEN value ELSE yearData[c]]
    IN  [y \in (DOMAIN ppp) \cup {year} |-> IF y = year THEN newYearData ELSE ppp[y]]

\* line 224: Array.prototype.sort((a, b) => a.year - b.year), a stable sort
RECURSIVE InsertByYear(_, _)
InsertByYear(sorted, point) ==
    IF sorted = <<>> THEN <<point>>
    ELSE IF sorted[Len(sorted)].year <= point.year THEN Append(sorted, point)
    ELSE Append(InsertByYear(SubSeq(sorted, 1, Len(sorted) - 1), point),
                sorted[Len(sorted)])

RECURSIVE SortByYear(_)
SortByYear(points) ==
    IF points = <<>> THEN <<>>
    ELSE InsertByYear(SortByYear(SubSeq(points, 1, Len(points) - 1)), points[Len(points)])

\* a bug: the test of line 187 never finds the code
HasCountryNever(countries, countryCode) == FALSE

\* tempCountriesMap.has(countryCode)
HasCountry(countries, countryCode) ==
    \E i \in 1..Len(countries) : countries[i].code = countryCode

\* currencySymbol of a record the enrichment has not (or not yet) filled
NoSymbol == ""

\* lines 203-221: years.forEach over the row, from the k-th year on
RECURSIVE AddYearValues(_, _, _, _, _)
AddYearValues(acc, row, countryCode, yearColumns, k) ==
    IF k > Len(yearColumns) THEN acc
    ELSE LET year == Years(yearColumns)[k]
             pppValueRaw == At(row, YearIndex(yearColumns, year))
             next ==
                 IF IsValidFactor(pppValueRaw)
                 THEN [acc EXCEPT
                         !.ppp = PutFactor(acc.ppp, year, countryCode, pppValueRaw.n),
                         !.hist = IF countryCode \in DOMAIN acc.hist
                                  THEN [acc.hist EXCEPT ![countryCode] =
                                            Append(@, [year |-> year,
                                                       pppConversionFactor |-> pppValueRaw.n])]
                                  ELSE acc.hist]
                 ELSE acc
         IN  AddYearValues(next, row, countryCode, yearColumns, k + 1)

\* lines 178-227: the body of dataRows.forEach for one row
ProcessRow(acc, row, countryNameIndex, countryCodeIndex, yearColumns) ==
    IF Len(row) <= Max(countryNameIndex, countryCodeIndex) THEN acc
    ELSE LET countryName == Trim(StringOf(At(row, countryNameIndex)))
             countryCode == Trim(StringOf(At(row, countryCodeIndex)))
         IN  IF ~IsValidRow(countryName, countryCode) THEN acc
             ELSE LET withCountry ==
                          IF ~HasCountry(acc.countries, countryCode)
                          THEN [acc EXCEPT
                                  !.countries = Append(@, [name |-> countryName,
                                                           code |-> countryCode,
                                                           currencySymbol |-> NoSymbol]),
                                  !.hist = [c \in (DOMAIN @) \cup {countryCode} |->
                                                IF c = countryCode THEN <<>> ELSE @[c]],
                                  !.currencyFetch = Append(@, countryCode)]
                          ELSE acc
                      withValues == AddYearValues(withCountry, row, countryCode, yearColumns, 1)
                  IN  IF countryCode \in DOMAIN withValues.hist
                      THEN [withValues EXCEPT !.hist[countryCode] = SortByYear(@)]
                      ELSE withValues

RECURSIVE ProcessRows(_, _, _, _, _)
ProcessRows(acc, dataRows, countryNameIndex, countryCodeIndex, yearColumns) ==
    IF dataRows = <<>> THEN acc
    ELSE ProcessRows(ProcessRow(acc, Head(dataRows), countryNameIndex, countryCodeIndex,
                                yearColumns),
                     Tail(dataRows), countryNameIndex, countryCodeIndex, yearColumns)

\* lines 171-175: the empty temporaries
EmptyTemp == [ppp |-> EmptyObject, hist |-> EmptyObject, countries |-> <<>>, currencyFetch |-> <<>>]

\* outcome of lines 94-227 on a workbook: the error thrown, or the
\* temporaries as they stand when control reaches the await at line 230
ParseWorkbook(wb) ==
    IF ~SheetFound(wb) THEN [error |-> "NoDataSheet"]
    ELSE LET jsonData == SheetByName(wb, SelectSheetName(wb))
         IN  IF DataStartIndexRaw(jsonData) = -1 THEN [error |-> "NoHeaderRow"]
             ELSE LET headers == Headers(jsonData)
                      yearColumns == YearColumns(headers)
                  IN  IF CountryNameIndex(headers) = -1 \/ CountryCodeIndex(headers) = -1
                      THEN [error |-> "MissingColumns"]
                      ELSE [error |-> "none",
                            temp |-> ProcessRows(EmptyTemp,
                                                 Slice(jsonData, DataStartIndexRaw(jsonData) + 1,
                                                       Len(jsonData)),
                                                 CountryNameIndex(headers),
                                                 CountryCodeIndex(headers), yearColumns),
                            latestAvailableYear |-> LatestAvailableYear(Years(yearColumns)),
                            localLastUpdatedTimestamp |-> FindLastUpdatedTimestamp(jsonData)]

-----------------------------------------------------------------------------
(* The currency collaborator (src/src/services/currency-data.ts).  Symbols *)
(* are opaque to the service; the symbols outside ASCII are written as     *)
(* their code points.                                                      *)

C_EUR == <<"E", "U", "R">>

EurozoneCodes == {<<"D", "E", "U">>, <<"F", "R", "A">>, <<"I", "T", "A">>, <<"E", "S", "P">>}

\* line 58
EffectiveCode(countryCode) == IF countryCode \in EurozoneCodes THEN C_EUR ELSE countryCode

\* lines 23-40: code :> currencySymbol
currencyDatabase ==
    (<<"U", "S", "A">> :> "$") @@ (<<"I", "N", "D">> :> "U+20B9") @@
    (C_EUR :> "U+20AC") @@ (<<"G", "B", "R">> :> "U+00A3") @@
    (<<"J", "P", "N">> :> "U+00A5") @@ (<<"C", "A", "N">> :> "CA$") @@
    (<<"A", "U", "D">> :> "A$") @@ (<<"C", "H", "F">> :> "CHF") @@
    (<<"C", "N", "Y">> :> "U+00A5") @@ (<<"I", "N", "R">> :> "U+20B9") @@
    (<<"B", "R", "A">> :> "R$") @@ (<<"R", "U", "S">> :> "U+20BD") @@
    (<<"Z", "A", "F">> :> "R") @@ (<<"M", "E", "X">> :> "Mex$") @@
    (<<"S", "G", "P">> :> "S$") @@ (<<"K", "O", "R">> :> "U+20A9")

\* getCurrencyData: the symbol, or NoSymbol for the null result
getCurrencyData(countryCode) ==
    IF EffectiveCode(countryCode) \in DOMAIN currencyDatabase
    THEN currencyDatabase[EffectiveCode(countryCode)]
    ELSE NoSymbol

\* ppp-data.ts lines 194-198: the then-callback of one currency lookup
SetCurrencySymbol(countries, countryCode) ==
    [i \in 1..Len(countries) |->
        IF countries[i].code = countryCode /\ getCurrencyData(countryCode) # NoSymbol
        THEN [countries[i] EXCEPT !.currencySymbol = getCurrencyData(countryCode)]
        ELSE countries[i]]

-----------------------------------------------------------------------------
(* String.prototype.localeCompare, as a collation with a primary level     *)
(* (punctuation < digits < letters, case folded) and a case level (lower   *)
(* case first) that breaks ties.                                           *)

Collation == <<" ", "_", "-", ".">> \o Digits \o LowerCase

Rank(c) == CHOOSE i \in 1..Len(Collation) : Collation[i] = ToLowerChar(c)

RECURSIVE PrimaryCompare(_, _)
PrimaryCompare(a, b) ==
    IF a = <<>> /\ b = <<>> THEN 0
    ELSE IF a = <<>> THEN -1
    ELSE IF b = <<>> THEN 1
    ELSE IF Rank(Head(a)) < Rank(Head(b)) THEN -1
    ELSE IF Rank(Head(a)) > Rank(Head(b)) THEN 1
    ELSE PrimaryCompare(Tail(a), Tail(b))

RECURSIVE CaseCompare(_, _)
CaseCompare(a, b) ==
    IF a = <<>> THEN 0
    ELSE IF Head(a) = Head(b) THEN CaseCompare(Tail(a), Tail(b))
    ELSE IF Head(a) = ToLowerChar(Head(a)) THEN -1 ELSE 1

LocaleCompare(a, b) ==
    IF PrimaryCompare(a, b) # 0 THEN PrimaryCompare(a, b) ELSE CaseCompare(a, b)

\* ppp-data.ts line 235: uniqueCountries.sort((a, b) => a.name.localeCompare(b.name))
RECURSIVE InsertByName(_, _)
InsertByName(sorted, info) ==
    IF sorted = <<>> THEN <<info>>
    ELSE IF LocaleCompare(sorted[Len(sorted)].name, info.name) <= 0 THEN Append(sorted, info)
    ELSE Append(InsertByName(SubSeq(sorted, 1, Len(sorted) - 1), info), sorted[Len(sorted)])

\* a bug: line 235 is missing, the countries stay in row order
KeepRowOrder(countries) == countries

RECURSIVE SortCountries(_)
SortCountries(countries) ==
    IF countries = <<>> THEN <<>>
    ELSE InsertByName(SortCountries(SubSeq(countries, 1, Len(countries) - 1)),
                      countries[Len(countries)])

-----------------------------------------------------------------------------
(* The workbooks the remote source may serve.                              *)

C_TST == <<"T", "S", "T">>
C_USA == <<"U", "S", "A">>
C_DEU == <<"D", "E", "U">>
C_ZZZ == <<"Z", "Z", "Z">>
C_AAA == <<"A", "A", "A">>
C_BBB == <<"B", "B", "B">>

Y1989 == <<"1", "9", "8", "9">>
Y1991 == <<"1", "9", "9", "1">>
Y1992 == <<"1", "9", "9", "2">>

\* header rows
HeaderExample == <<Str(STR_CountryName), Str(STR_CountryCode), Str(Y1991), Str(Y1992)>>
HeaderEarlyYear == <<Str(STR_CountryName), Str(STR_CountryCode), Str(Y1989), Num(1992)>>
HeaderTwiceYear ==
    <<Str(<<" ">> \o STR_CountryName), Str(STR_CountryCode \o <<" ">>), Str(Y1991), Str(Y1991)>>
HeaderNoYear ==
    <<Str(STR_CountryName), Str(STR_CountryCode), Str(<<"N", "o", "t", "e">>)>>
HeaderNoCode == <<Str(STR_CountryName), Str(<<"C", "o", "d", "e">>), Str(Y1991)>>

HeaderPool == <<HeaderExample, HeaderEarlyYear, HeaderTwiceYear, HeaderNoYear, HeaderNoCode>>

\* data rows
RowExample == <<Str(<<"T", "e", "s", "t", "l", "a", "n", "d">>), Str(C_TST), Num(50), Str(<<>>)>>
RowSameCode == <<Str(<<"O", "t", "h", "e", "r">>), Str(C_TST), Num(60), Num(70)>>
RowNoData == <<Str(<<"a", "m", "e", "r", "i", "c", "a">>), Str(C_USA), Num(0), Str(<<".", ".">>)>>
RowBlankName == <<Undef, Str(<<"B", "L", "K">>), Num(5), Num(6)>>
RowLongCode == <<Str(<<"L", "o", "n", "g">>), Str(<<"A", "B", "C", "D">>), Num(5), Num(6)>>
RowSpaces == <<Str(<<" ", "Z", "e", "d", " ">>), Str(<<" ", "Z", "E", "D", " ">>), NaNCell, Num(-3)>>
RowShort == <<Str(<<"S", "h", "o", "r", "t">>)>>
RowEmptyName == <<Str(<<" ">>), Str(<<"E", "M", "P">>), Num(5), Num(6)>>
RowEuro == <<Str(<<"G", "e", "r", "m", "a", "n", "y">>), Str(C_DEU), Num(2), Num(3)>>

RowTwenty == <<Str(<<"A", "l", "a", "n", "d">>), Str(C_AAA), Num(20), Num(10)>>
RowFour == <<Str(<<"B", "l", "a", "n", "d">>), Str(C_BBB), Num(4), Num(5)>>

RowPool == <<RowExample, RowSameCode, RowNoData, RowBlankName, RowLongCode, RowSpaces,
             RowShort, RowEmptyName, RowEuro, RowTwenty, RowFour, HeaderExample>>

\* the rows the enumerated grids are made of: all of the pool but the last four
GridRows == 1..(Len(RowPool) - 4)

MetaRowDate == <<Str(STR_LastUpdatedDate), Str(<<" ", "2", "0", "2", "5", " ">>)>>
MetaRowSource == <<Str(<<"S", "o", "u", "r", "c", "e">>), Str(<<"W", "D", "I">>)>>

\* date rows whose neighbour cell is blank, is missing before a third cell, or
\* does not exist
MetaRowBlankDate == <<Str(STR_LastUpdatedDate), Str(<<" ">>)>>
MetaRowHoleDate == <<Str(STR_LastUpdatedDate), Undef, Str(<<"W", "D", "I">>)>>
MetaRowLoneDate == <<Str(STR_LastUpdatedDate)>>

\* number of leading rows the header row is looked for in
ScanBound == 10

\* n rows that are not header rows
MetaRows(n) == [i \in 1..n |-> MetaRowSource]

\* the rows above the header row
MetaPool == <<<<>>, <<MetaRowDate>>, <<MetaRowSource>>, <<MetaRowDate, MetaRowSource>>,
              MetaRows(ScanBound - 1), MetaRows(ScanBound), MetaRows(ScanBound + 1),
              <<MetaRowBlankDate>>, <<MetaRowHoleDate>>, <<MetaRowLoneDate>>,
              MetaRows(4) \o <<MetaRowDate>>, MetaRows(5) \o <<MetaRowDate>>>>

\* sheet names
N_Notes == <<"N", "o", "t", "e", "s">>
N_Values == <<"V", "a", "l", "u", "e", "s">>
N_Metadata == <<"M", "e", "t", "a", "d", "a", "t", "a">>
N_MetadataCountries == <<"S", "e", "r", "i", "e", "s", " ", "-", " ">> \o N_Metadata
N_data == <<"d", "a", "t", "a">>

\* the sheet names of a workbook, in workbook order
SheetNamePool ==
    <<<<>>, <<STR_Data>>,
      <<N_Metadata, STR_Data>>, <<N_Values, STR_Data>>, <<N_Values, N_Notes>>,
      <<N_Metadata, N_Values>>, <<N_Notes, STR_Sheet1>>, <<N_Metadata>>,
      <<N_Metadata, N_MetadataCountries, N_Values>>, <<N_data>>, <<N_Notes, STR_API>>,
      <<N_MetadataCountries, N_Metadata>>>>

\* A workbook is named by a descriptor: the indices of its parts in the pools
\* (header 0: no header row).
Descriptor(names, meta, header, rows) ==
    [names |-> names, meta |-> meta, header |-> header, rows |-> rows]

Grid(d) ==
    MetaPool[d.meta]
    \o (IF d.header = 0 THEN <<>> ELSE <<HeaderPool[d.header]>>)
    \o [i \in 1..Len(d.rows) |-> RowPool[d.rows[i]]]

\* the country code of the row that marks the i-th sheet of a workbook
SheetCode(i) == <<"S", "0">> \o NatToString(i)

\* the first sheet holds the grid of the descriptor; a further sheet holds
\* the same meta rows and header over one row that carries the sheet's code
SheetGrid(d, i) ==
    IF i = 1 THEN Grid(d)
    ELSE MetaPool[d.meta]
         \o (IF d.header = 0 THEN <<>> ELSE <<HeaderPool[d.header]>>)
         \o <<<<Str(N_Values), Str(SheetCode(i)), Num(i), Num(i)>>>>

Workbook(d) ==
    [SheetNames |-> SheetNamePool[d.names],
     Sheets |-> [i \in 1..Len(SheetNamePool[d.names]) |-> SheetGrid(d, i)]]

\* all sequences of at most n row indices
RECURSIVE RowSeqs(_)
RowSeqs(n) ==
    IF n = 0 THEN {<<>>}
    ELSE RowSeqs(n - 1) \cup
         {Append(rs, r) : rs \in {x \in RowSeqs(n - 1) : Len(x) = n - 1}, r \in GridRows}

\* one "Data" sheet: the date row, a header of the pool, at most MaxDataRows rows
GridWorkbooks ==
    {Descriptor(2, 2, h, rs) : h \in 1..Len(HeaderPool), rs \in RowSeqs(MaxDataRows)}

\* the workbooks of the concurrency specification
WorkbookExample == Descriptor(2, 2, 1, <<1>>)
WorkbookSameCode == Descriptor(2, 1, 1, <<1, 2, 9>>)
WorkbookNoYear == Descriptor(2, 3, 4, <<1>>)
WorkbookNoRows == Descriptor(2, 1, 1, <<7>>)
WorkbookNoHeader == Descriptor(2, 4, 0, <<>>)
WorkbookNoSheets == Descriptor(1, 1, 1, <<1>>)

\* the workbooks of the page specification
WorkbookThree == Descriptor(2, 2, 1, <<10, 11, 1>>)
WorkbookTwice == Descriptor(2, 2, 1, <<1, 2, 10>>)

PageWorkbooks == {WorkbookThree, WorkbookTwice}

\* the workbooks of the sheet selection specification: every list of sheet names
SheetWorkbooks == {Descriptor(n, 2, 1, <<1>>) : n \in 1..Len(SheetNamePool)}

\* the workbooks of the header discovery specification: any rows above a
\* header row (or none) over a data row, a second header row and a data row
HeaderWorkbooks ==
    {Descriptor(2, m, h, rs) : m \in 1..Len(MetaPool), h \in {0, 1, 3},
                               rs \in {<<>>, <<1>>, <<9, 12, 3>>}}

SampleWorkbooks == {WorkbookExample, WorkbookSameCode, WorkbookNoYear, WorkbookNoRows,
                    WorkbookNoHeader, WorkbookNoSheets}

\* what a caller may ask for
QueryCodes == {C_TST, C_ZZZ}
QueryYears == {1991, 1992}

-----------------------------------------------------------------------------
(* State.                                                                  *)

VARIABLES
    pppDataCache,              \* line 49
    historicalDataCache,       \* line 51
    countriesCache,            \* line 52
    cachedLatestYear,          \* line 53
    dataLastUpdatedTimestamp,  \* line 54
    isFetchingData,            \* line 55
    fetchPromise,              \* line 56: the attempt whose promise is stored, or NoPromise
    attempt,                   \* the instances of the async closure of lines 84-262
    caller,                    \* the callers of the query operations
    remote,                    \* the workbooks the download may return
    writtenBy,                 \* history: the attempt that last assigned each sub-cache
    ended,                     \* history: number of attempts that have committed or reset
    attemptLog,                \* history: per attempt, the value of ended when it started
                               \* and the downloads and parse passes it has performed
    page,                      \* page.tsx lines 55-64: the state of the Home component
    task                       \* the invocations of onSubmit (page.tsx line 133)

vars == <<pppDataCache, historicalDataCache, countriesCache, cachedLatestYear,
          dataLastUpdatedTimestamp, isFetchingData, fetchPromise, attempt, caller,
          remote, writtenBy, ended, attemptLog, page, task>>

Callers == 1..NumCallers
Attempts == 1..MaxAttempts

Null == [isNull |-> TRUE]
Value(v) == [isNull |-> FALSE, v |-> v]

NoPromise == 0

Operations == {"getCountries", "getLatestAvailableYear", "getDataLastUpdatedTimestamp",
               "getPPPData", "getHistoricalPPPData"}

\* what a query operation returns (or that it threw)
ReturnNull == [t |-> "null"]
ReturnList(list) == [t |-> "list", v |-> list]
ReturnNumber(n) == [t |-> "number", v |-> n]
ReturnString(str) == [t |-> "string", v |-> str]
ReturnPPPData(countryCode, factor, year) ==
    [t |-> "PPPData", countryCode |-> countryCode, pppConversionFactor |-> factor,
     year |-> year]
Thrown == [t |-> "throw"]

Unstarted == [stage |-> "unstarted"]

IdleCaller == [pc |-> "idle"]

\* a bug: the promise of a failed attempt never settles
PendingThoughRejected(k) ==
    attempt[k].stage \in {"awaitFetch", "awaitArrayBuffer", "awaitCurrency", "rejected"}

\* the promise of attempt k is still pending
Pending(k) == attempt[k].stage \in {"awaitFetch", "awaitArrayBuffer", "awaitCurrency"}

Started(k) == attempt[k].stage # "unstarted"

-----------------------------------------------------------------------------
(* fetchAndCachePPPData.                                                   *)

\* line 68
AlreadyCached ==
    /\ ~pppDataCache.isNull
    /\ ~countriesCache.isNull
    /\ ~cachedLatestYear.isNull
    /\ ~historicalDataCache.isNull
    /\ ~dataLastUpdatedTimestamp.isNull

\* a bug: the in-flight check is missing, every cache miss starts a download
FetchInProgressNever == FALSE

\* line 73
FetchInProgress == isFetchingData /\ fetchPromise # NoPromise

\* the attempt a call of fetchAndCachePPPData would start
NextAttempt == CHOOSE k \in Attempts : ~Started(k) /\ \A j \in 1..(k - 1) : Started(j)

\* a bug: the promise of the started attempt is not stored
StoredPromiseLost(k) == NoPromise

\* line 84: fetchPromise = (async () => { ... })()
StoredPromise(k) == k

\* line 243: `fetched ${fetchStartTime.toLocaleDateString()}`
FallbackTimestamp == <<"f", "e", "t", "c", "h", "e", "d", " ", "1", "/", "1", "/", "2", "5">>

\* line 241
LatestYearToCommit(latestAvailableYear) ==
    IF latestAvailableYear > 0 THEN Value(latestAvailableYear) ELSE Null

\* a bug: the fallback of line 243 is missing
TimestampWithoutFallback(localLastUpdatedTimestamp) ==
    IF localLastUpdatedTimestamp # <<>> THEN Value(localLastUpdatedTimestamp) ELSE Null

\* line 243: localLastUpdatedTimestamp || fallback
TimestampToCommit(localLastUpdatedTimestamp) ==
    IF localLastUpdatedTimestamp # <<>> THEN Value(localLastUpdatedTimestamp)
    ELSE Value(FallbackTimestamp)

\* line 256: what the catch block leaves in fetchPromise
FetchPromiseAfterError == NoPromise

\* a bug: the finally block is missing, the flag stays set
IsFetchingLeftSet == TRUE

\* line 259: what the finally block leaves in isFetchingData
IsFetchingAfterAttempt == FALSE

\* a bug: the attempt rejects without the clean-up of lines 251-259
FailWithoutCleanup(k) ==
    /\ attempt' = [attempt EXCEPT ![k] = [stage |-> "rejected"]]
    /\ ended' = ended + 1
    /\ UNCHANGED <<pppDataCache, historicalDataCache, countriesCache, cachedLatestYear,
                   dataLastUpdatedTimestamp, fetchPromise, isFetchingData, writtenBy>>

\* lines 248-261: the catch and finally blocks of attempt k
Fail(k) ==
    /\ pppDataCache' = Null
    /\ historicalDataCache' = Null
    /\ countriesCache' = Null
    /\ cachedLatestYear' = Null
    /\ dataLastUpdatedTimestamp' = Null
    /\ fetchPromise' = FetchPromiseAfterError
    /\ isFetchingData' = IsFetchingAfterAttempt
    /\ attempt' = [attempt EXCEPT ![k] = [stage |-> "rejected"]]
    /\ writtenBy' = [c \in DOMAIN writtenBy |-> k]
    /\ ended' = ended + 1

\* lines 87-90: the fetch settles; a transport error or a non-ok status throws
FetchSettles(k) ==
    /\ UNCHANGED <<page, task>>
    /\ attempt[k].stage = "awaitFetch"
    /\ \E outcome \in {"ok", "status", "reject"} :
          IF outcome = "ok"
          THEN /\ attempt' = [attempt EXCEPT ![k] = [stage |-> "awaitArrayBuffer"]]
               /\ UNCHANGED <<pppDataCache, historicalDataCache, countriesCache,
                              cachedLatestYear, dataLastUpdatedTimestamp, isFetchingData,
                              fetchPromise, writtenBy, ended>>
          ELSE Fail(k)
    /\ UNCHANGED <<caller, remote, attemptLog>>

\* ParseWorkbook, tabulated over the descriptors of the workbooks the model serves
Parsed ==
    [d \in SampleWorkbooks \cup GridWorkbooks \cup PageWorkbooks \cup SheetWorkbooks
            \cup HeaderWorkbooks |->
         ParseWorkbook(Workbook(d))]

\* lines 91-227: the body arrives and is parsed, up to the await of line 230;
\* the body may be unreadable (arrayBuffer rejects or XLSX.read throws)
ArrayBufferSettles(k) ==
    /\ UNCHANGED <<page, task>>
    /\ attempt[k].stage = "awaitArrayBuffer"
    /\ \/ Fail(k) /\ UNCHANGED attemptLog
       \/ \E wb \in remote :
             LET parsed == Parsed[wb]
             IN  /\ attemptLog' = [attemptLog EXCEPT ![k].parses = @ + 1]
                 /\ IF parsed.error # "none" THEN Fail(k)
                    ELSE /\ attempt' = [attempt EXCEPT ![k] =
                                [stage |-> "awaitCurrency",
                                 ppp |-> parsed.temp.ppp,
                                 hist |-> parsed.temp.hist,
                                 countries |-> parsed.temp.countries,
                                 currencyFetch |-> parsed.temp.currencyFetch,
                                 latestAvailableYear |-> parsed.latestAvailableYear,
                                 localLastUpdatedTimestamp |->
                                     parsed.localLastUpdatedTimestamp]]
                         /\ UNCHANGED <<pppDataCache, historicalDataCache, countriesCache,
                                        cachedLatestYear, dataLastUpdatedTimestamp,
                                        isFetchingData, fetchPromise, writtenBy, ended>>
    /\ UNCHANGED <<caller, remote>>

\* lines 194-198: the next currency lookup resolves and its callback runs
CurrencyResolves(k) ==
    /\ UNCHANGED <<page, task>>
    /\ attempt[k].stage = "awaitCurrency"
    /\ attempt[k].currencyFetch # <<>>
    /\ attempt' = [attempt EXCEPT
                     ![k].countries = SetCurrencySymbol(@, Head(attempt[k].currencyFetch)),
                     ![k].currencyFetch = Tail(@)]
    /\ UNCHANGED <<pppDataCache, historicalDataCache, countriesCache, cachedLatestYear,
                   dataLastUpdatedTimestamp, isFetchingData, fetchPromise, caller, remote,
                   writtenBy, ended, attemptLog>>

\* a bug: line 230 does not wait for the lookups
LookupsNotAwaited(currencyFetch) == TRUE

\* line 230: await Promise.all(currencyFetchPromises) resumes when no lookup
\* is pending
AllLookupsDone(currencyFetch) == currencyFetch = <<>>

\* lines 230-246 and 259: Promise.all resolves, the countries are sorted and
\* the cache is committed
Commit(k) ==
    /\ UNCHANGED <<page, task>>
    /\ attempt[k].stage = "awaitCurrency"
    /\ AllLookupsDone(attempt[k].currencyFetch)
    /\ pppDataCache' = Value(attempt[k].ppp)
    /\ historicalDataCache' = Value(attempt[k].hist)
    /\ countriesCache' = Value(SortCountries(attempt[k].countries))
    /\ cachedLatestYear' = LatestYearToCommit(attempt[k].latestAvailableYear)
    /\ dataLastUpdatedTimestamp' = TimestampToCommit(attempt[k].localLastUpdatedTimestamp)
    /\ isFetchingData' = IsFetchingAfterAttempt
    /\ attempt' = [attempt EXCEPT ![k] = [stage |-> "fulfilled"]]
    /\ writtenBy' = [c \in DOMAIN writtenBy |-> k]
    /\ ended' = ended + 1
    /\ UNCHANGED <<fetchPromise, caller, remote, attemptLog>>

-----------------------------------------------------------------------------
(* The query operations (lines 276-409).                                   *)

Requests ==
    {[op |-> "getCountries"], [op |-> "getLatestAvailableYear"],
     [op |-> "getDataLastUpdatedTimestamp"]}
    \cup {[op |-> "getPPPData", countryCode |-> c, year |-> y] :
              c \in QueryCodes, y \in QueryYears}
    \cup {[op |-> "getHistoricalPPPData", countryCode |-> c] : c \in QueryCodes}

\* the requests of the concurrency specification: every operation once
SampleRequests ==
    {[op |-> "getCountries"], [op |-> "getLatestAvailableYear"],
     [op |-> "getDataLastUpdatedTimestamp"],
     [op |-> "getPPPData", countryCode |-> C_TST, year |-> 1991],
     [op |-> "getHistoricalPPPData", countryCode |-> C_TST]}

\* a bug: lines 296 and 316 test their own sub-cache only
NeedsFetchOwnCacheOnly(op) ==
    CASE op = "getCountries" -> countriesCache.isNull
      [] op = "getLatestAvailableYear" -> cachedLatestYear.isNull
      [] op = "getDataLastUpdatedTimestamp" -> dataLastUpdatedTimestamp.isNull
      [] op = "getPPPData" -> pppDataCache.isNull
      [] op = "getHistoricalPPPData" -> historicalDataCache.isNull

\* lines 277, 296, 316, 340, 387: the operation calls fetchAndCachePPPData
NeedsFetch(op) ==
    CASE op = "getCountries" -> countriesCache.isNull
      [] op = "getLatestAvailableYear" -> cachedLatestYear.isNull /\ pppDataCache.isNull
      [] op = "getDataLastUpdatedTimestamp" ->
             dataLastUpdatedTimestamp.isNull /\ pppDataCache.isNull
      [] op = "getPPPData" -> pppDataCache.isNull
      [] op = "getHistoricalPPPData" -> historicalDataCache.isNull

\* a bug: getPPPData has no try/catch around its await
OnFetchErrorUncaught(op) ==
    CASE op = "getCountries" -> ReturnList(<<>>)
      [] op = "getLatestAvailableYear" -> ReturnNull
      [] op = "getDataLastUpdatedTimestamp" -> ReturnNull
      [] op = "getPPPData" -> Thrown
      [] op = "getHistoricalPPPData" -> ReturnList(<<>>)

\* lines 280-283, 299-302, 319-322, 344-347, 391-394: the catch blocks
OnFetchError(op) ==
    CASE op = "getCountries" -> ReturnList(<<>>)
      [] op = "getLatestAvailableYear" -> ReturnNull
      [] op = "getDataLastUpdatedTimestamp" -> ReturnNull
      [] op = "getPPPData" -> ReturnNull
      [] op = "getHistoricalPPPData" -> ReturnList(<<>>)

\* lines 349-373
LookupFactor(countryCode, year) ==
    IF pppDataCache.isNull THEN ReturnNull
    ELSE IF year \notin DOMAIN pppDataCache.v THEN ReturnNull
    ELSE IF countryCode \notin DOMAIN pppDataCache.v[year] THEN ReturnNull
    ELSE ReturnPPPData(countryCode, pppDataCache.v[year][countryCode], year)

\* lines 395-408
LookupHistory(countryCode) ==
    IF historicalDataCache.isNull THEN ReturnList(<<>>)
    ELSE IF countryCode \notin DOMAIN historicalDataCache.v THEN ReturnList(<<>>)
    ELSE ReturnList(historicalDataCache.v[countryCode])

\* lines 285, 304, 324, 349-373, 395-408: what the operation returns from
\* the cache as it stands
ReadCache(req) ==
    CASE req.op = "getCountries" ->
             IF countriesCache.isNull THEN ReturnList(<<>>) ELSE ReturnList(countriesCache.v)
      [] req.op = "getLatestAvailableYear" ->
             IF cachedLatestYear.isNull THEN ReturnNull ELSE ReturnNumber(cachedLatestYear.v)
      [] req.op = "getDataLastUpdatedTimestamp" ->
             IF dataLastUpdatedTimestamp.isNull THEN ReturnNull
             ELSE ReturnString(dataLastUpdatedTimestamp.v)
      [] req.op = "getPPPData" -> LookupFactor(req.countryCode, req.year)
      [] req.op = "getHistoricalPPPData" -> LookupHistory(req.countryCode)

\* history: the attempt whose commit the cache holds, 0 when nothing is committed
Generation == IF pppDataCache.isNull THEN 0 ELSE writtenBy.pppDataCache

\* a caller invokes a query operation; the operation runs to its first await
\* (through fetchAndCachePPPData, lines 66-84 and 264) or to its return
Call(p, req) ==
    /\ UNCHANGED <<page, task>>
    /\ caller[p].pc = "idle"
    /\ IF ~NeedsFetch(req.op)
       THEN /\ caller' = [caller EXCEPT ![p] =
                   [pc |-> "returned", req |-> req, via |-> "cache", awaits |-> NoPromise,
                    epoch |-> ended, gen |-> Generation, result |-> ReadCache(req)]]
            /\ UNCHANGED <<isFetchingData, fetchPromise, attempt, attemptLog>>
       ELSE IF AlreadyCached
       THEN /\ caller' = [caller EXCEPT ![p] =
                   [pc |-> "await", req |-> req, via |-> "promise", awaits |-> NoPromise,
                    epoch |-> ended]]
            /\ UNCHANGED <<isFetchingData, fetchPromise, attempt, attemptLog>>
       ELSE IF FetchInProgress
       THEN /\ caller' = [caller EXCEPT ![p] =
                   [pc |-> "await", req |-> req, via |-> "promise", awaits |-> fetchPromise,
                    epoch |-> ended]]
            /\ UNCHANGED <<isFetchingData, fetchPromise, attempt, attemptLog>>
       ELSE /\ \E k \in Attempts : ~Started(k)
            /\ isFetchingData' = TRUE
            /\ attempt' = [attempt EXCEPT ![NextAttempt] = [stage |-> "awaitFetch"]]
            /\ fetchPromise' = StoredPromise(NextAttempt)
            /\ attemptLog' = [attemptLog EXCEPT ![NextAttempt] =
                   [epoch |-> ended, downloads |-> 1, parses |-> 0]]
            /\ caller' = [caller EXCEPT ![p] =
                   [pc |-> "await", req |-> req, via |-> "promise", awaits |-> NextAttempt,
                    epoch |-> ended]]
    /\ UNCHANGED <<pppDataCache, historicalDataCache, countriesCache, cachedLatestYear,
                   dataLastUpdatedTimestamp, remote, writtenBy, ended>>

\* the promise a caller awaits has settled: the operation continues after its
\* await, in the catch block when the promise was rejected
Resume(p) ==
    /\ UNCHANGED <<page, task>>
    /\ caller[p].pc = "await"
    /\ caller[p].awaits # NoPromise => ~Pending(caller[p].awaits)
    /\ caller' = [caller EXCEPT ![p] =
           [pc |-> "returned", req |-> caller[p].req, via |-> caller[p].via,
            awaits |-> caller[p].awaits, epoch |-> caller[p].epoch, gen |-> Generation,
            result |-> IF caller[p].awaits # NoPromise
                          /\ attempt[caller[p].awaits].stage = "rejected"
                       THEN OnFetchError(caller[p].req.op)
                       ELSE ReadCache(caller[p].req)]]
    /\ UNCHANGED <<pppDataCache, historicalDataCache, countriesCache, cachedLatestYear,
                   dataLastUpdatedTimestamp, isFetchingData, fetchPromise, attempt, remote,
                   writtenBy, ended, attemptLog>>

\* the caller takes the result and may call again
Return(p) ==
    /\ UNCHANGED <<page, task>>
    /\ caller[p].pc = "returned"
    /\ caller' = [caller EXCEPT ![p] = IdleCaller]
    /\ UNCHANGED <<pppDataCache, historicalDataCache, countriesCache, cachedLatestYear,
                   dataLastUpdatedTimestamp, isFetchingData, fetchPromise, attempt, remote,
                   writtenBy, ended, attemptLog>>

-----------------------------------------------------------------------------
(* The consumer (src/src/app/page.tsx): the Home component.  Its React     *)
(* state is the record page; task holds the invocations of onSubmit and of *)
(* the fetchHistorical they start.  Amounts and factors are integers here  *)
(* and a quotient is kept as a fraction in lowest terms.                   *)

Submits == 1..MaxSubmits

RECURSIVE GCD(_, _)
GCD(a, b) == IF b = 0 THEN a ELSE GCD(b, a % b)

\* a / b for a >= 0, b >= 0; den = 0 stands for Infinity (num 1) or NaN (num 0)
Quotient(a, b) ==
    IF b = 0 THEN [num |-> IF a = 0 THEN 0 ELSE 1, den |-> 0]
    ELSE [num |-> a \div GCD(a, b), den |-> b \div GCD(a, b)]

\* n * q
Times(n, q) == IF q.den = 0 THEN q ELSE Quotient(n * q.num, q.den)

\* a bug: the ratio of line 184 is taken the other way round
PPPRatioInverted(pppData1, pppData2) ==
    Quotient(pppData1.pppConversionFactor, pppData2.pppConversionFactor)

\* page.tsx line 184
PPPRatio(pppData1, pppData2) ==
    Quotient(pppData2.pppConversionFactor, pppData1.pppConversionFactor)

\* page.tsx lines 164-165: countryOptions.find(c => c.code === code); <<>> for undefined
FindCountry(countryOptions, code) ==
    LET i == FindIndex(countryOptions, LAMBDA c : c.code = code)
    IN  IF i = -1 THEN <<>> ELSE <<countryOptions[i + 1]>>

\* page.tsx lines 224-225: history.find(d => d.year === year)?.pppConversionFactor;
\* 0 stands for undefined (both fail the test of line 227)
FactorOfYear(history, year) ==
    LET i == FindIndex(history, LAMBDA d : d.year = year)
    IN  IF i = -1 THEN 0 ELSE history[i + 1].pppConversionFactor

\* page.tsx line 221: the members of new Set([...]) in insertion order
RECURSIVE Distinct(_)
Distinct(seq) ==
    IF seq = <<>> THEN <<>>
    ELSE LET init == Distinct(SubSeq(seq, 1, Len(seq) - 1))
             last == seq[Len(seq)]
         IN  IF \E i \in 1..Len(init) : init[i] = last THEN init ELSE Append(init, last)

\* a bug: line 227 accepts a year in which one of the two factors exists
HasEitherFactor(ppp1, ppp2) == ppp1 > 0 \/ ppp2 > 0

\* page.tsx line 227: ppp1 && ppp2 && ppp1 > 0 && ppp2 > 0
HasBothFactors(ppp1, ppp2) == ppp1 # 0 /\ ppp2 # 0 /\ ppp1 > 0 /\ ppp2 > 0

\* page.tsx lines 223-239: years.forEach, from the k-th year on
RECURSIVE CombineYears(_, _, _, _, _, _)
CombineYears(combinedData, years, history1, history2, baseAmount, label) ==
    IF years = <<>> THEN combinedData
    ELSE LET year == Head(years)
             ppp1 == FactorOfYear(history1, year)
             ppp2 == FactorOfYear(history2, year)
             next == IF HasBothFactors(ppp1, ppp2)
                     THEN Append(combinedData,
                                 [year |-> year,
                                  equivalentAmount |-> Times(baseAmount, Quotient(ppp2, ppp1)),
                                  label |-> label])
                     ELSE combinedData
         IN  CombineYears(next, Tail(years), history1, history2, baseAmount, label)

\* page.tsx lines 220-242
CombinedData(history1, history2, baseAmount, label) ==
    SortByYear(CombineYears(<<>>,
                            Distinct([i \in 1..Len(history1) |-> history1[i].year]
                                     \o [i \in 1..Len(history2) |-> history2[i].year]),
                            history1, history2, baseAmount, label))

\* page.tsx lines 55-64: the state of the component when it is first rendered
PageInitial ==
    [mounted |-> FALSE, result |-> Null, isLoading |-> FALSE, isInitialLoading |-> TRUE,
     error |-> Null, dataLoadError |-> <<>>, countryOptions |-> <<>>, latestYear |-> Null,
     formSchema |-> Null, historicalData |-> Null, isFetchingHistoricalData |-> FALSE,
     resultOf |-> 0, historicalOf |-> 0]

NoTask == [pc |-> "unused"]

\* what the user may enter
Amounts == {100, 3}
FormYears == {1991, 1992}

\* page.tsx lines 20-31 and 91-97: the values pass the form schema
PassesSchema(values) ==
    /\ values.country1 # <<>>
    /\ values.country2 # <<>>
    /\ values.amount > 0
    /\ values.year >= MinYear
    /\ values.year <= page.formSchema.v

\* page.tsx lines 286 and 415: the form is rendered and its button is enabled
CanSubmit ==
    /\ page.mounted
    /\ ~page.isInitialLoading
    /\ ~page.formSchema.isNull
    /\ ~page.isLoading
    /\ page.countryOptions # <<>>

\* page.tsx lines 68-77 and 108: the effect runs fetchInitialData, which
\* calls getCountries() and getLatestAvailableYear() (ppp-data.ts lines
\* 276-279 and 294-298, fetchAndCachePPPData lines 66-84 and 73-76) and
\* awaits both
Mount ==
    /\ ~page.mounted
    /\ caller[1].pc = "idle" /\ caller[2].pc = "idle"
    /\ NeedsFetch("getCountries") /\ ~AlreadyCached /\ ~FetchInProgress
    /\ page' = [page EXCEPT !.mounted = TRUE, !.isInitialLoading = TRUE,
                            !.dataLoadError = <<>>]
    /\ isFetchingData' = TRUE
    /\ attempt' = [attempt EXCEPT ![NextAttempt] = [stage |-> "awaitFetch"]]
    /\ fetchPromise' = StoredPromise(NextAttempt)
    /\ attemptLog' = [attemptLog EXCEPT ![NextAttempt] =
           [epoch |-> ended, downloads |-> 1, parses |-> 0]]
    /\ caller' = [caller EXCEPT
           ![1] = [pc |-> "await", req |-> [op |-> "getCountries"], via |-> "promise",
                   awaits |-> NextAttempt, epoch |-> ended],
           ![2] = [pc |-> "await", req |-> [op |-> "getLatestAvailableYear"],
                   via |-> "promise", awaits |-> fetchPromise',
                   epoch |-> ended]]
    /\ UNCHANGED <<pppDataCache, historicalDataCache, countriesCache, cachedLatestYear,
                   dataLastUpdatedTimestamp, remote, writtenBy, ended, task>>

\* page.tsx lines 79-106: both operations have returned
InitialDataArrives ==
    /\ page.mounted /\ page.isInitialLoading
    /\ caller[1].pc = "returned" /\ caller[2].pc = "returned"
    /\ LET fetchedCountries == caller[1].result
           fetchedLatestYear == caller[2].result
       IN  IF fetchedCountries = Thrown \/ fetchedLatestYear = Thrown
           THEN page' = [page EXCEPT !.dataLoadError = <<"failed">>,
                                     !.isInitialLoading = FALSE]
           ELSE page' = [page EXCEPT
                    !.countryOptions = fetchedCountries.v,
                    !.latestYear = IF fetchedLatestYear = ReturnNull THEN Null
                                   ELSE Value(fetchedLatestYear.v),
                    !.dataLoadError =
                        (IF fetchedCountries.v = <<>> THEN <<"noCountries">> ELSE <<>>)
                        \o (IF fetchedLatestYear = ReturnNull THEN <<"noLatestYear">>
                            ELSE <<>>),
                    !.formSchema = IF fetchedLatestYear = ReturnNull THEN Null
                                   ELSE Value(fetchedLatestYear.v),
                    !.isInitialLoading = FALSE]
    /\ caller' = [caller EXCEPT ![1] = IdleCaller, ![2] = IdleCaller]
    /\ UNCHANGED <<pppDataCache, historicalDataCache, countriesCache, cachedLatestYear,
                   dataLastUpdatedTimestamp, isFetchingData, fetchPromise, attempt, remote,
                   writtenBy, ended, attemptLog, task>>

\* the values the user may submit: countries picked from the rendered list
FormValues ==
    {[country1 |-> page.countryOptions[i].code, country2 |-> page.countryOptions[j].code,
      amount |-> a, year |-> y] :
         i \in 1..Len(page.countryOptions), j \in 1..Len(page.countryOptions),
         a \in Amounts, y \in FormYears}

\* page.tsx lines 133-161: the form is submitted; onSubmit runs to its await.
\* The cache is populated whenever the form can be submitted, so the two
\* getPPPData calls read it without a fetch (ppp-data.ts lines 340, 349-373).
Submit(i, values) ==
    /\ CanSubmit
    /\ PassesSchema(values)
    /\ task[i] = NoTask /\ \A j \in 1..(i - 1) : task[j] # NoTask
    /\ ~NeedsFetch("getPPPData")
    /\ IF values.country1 = values.country2
       THEN /\ page' = [page EXCEPT !.isLoading = FALSE, !.error = Value("sameCountry"),
                                    !.result = Null, !.resultOf = 0,
                                    !.historicalData = Null, !.historicalOf = 0,
                                    !.isFetchingHistoricalData = FALSE]
            /\ task' = [task EXCEPT ![i] = [pc |-> "done", values |-> values,
                                            outcome |-> "sameCountry"]]
       ELSE /\ page' = [page EXCEPT !.isLoading = TRUE, !.error = Null,
                                    !.result = Null, !.resultOf = 0,
                                    !.historicalData = Null, !.historicalOf = 0,
                                    !.isFetchingHistoricalData = FALSE]
            /\ task' = [task EXCEPT ![i] =
                   [pc |-> "awaitPPP", values |-> values,
                    pppData1 |-> ReadCache([op |-> "getPPPData",
                                            countryCode |-> values.country1,
                                            year |-> values.year]),
                    pppData2 |-> ReadCache([op |-> "getPPPData",
                                            countryCode |-> values.country2,
                                            year |-> values.year]),
                    currencyData1 |-> getCurrencyData(values.country1),
                    currencyData2 |-> getCurrencyData(values.country2)]]
    /\ UNCHANGED <<pppDataCache, historicalDataCache, countriesCache, cachedLatestYear,
                   dataLastUpdatedTimestamp, isFetchingData, fetchPromise, attempt, caller,
                   remote, writtenBy, ended, attemptLog>>

\* page.tsx lines 163-207, and fetchHistorical to its await (lines 211-218):
\* the four results have arrived
SubmitResumes(i) ==
    /\ task[i].pc = "awaitPPP"
    /\ LET values == task[i].values
           country1Info == FindCountry(page.countryOptions, values.country1)
           country2Info == FindCountry(page.countryOptions, values.country2)
       IN  IF country1Info = <<>> \/ country2Info = <<>>
           THEN /\ page' = [page EXCEPT !.error = Value("noCountryInfo"),
                                        !.isLoading = FALSE]
                /\ task' = [task EXCEPT ![i] = [pc |-> "done", values |-> values,
                                                outcome |-> "noCountryInfo"]]
           ELSE IF task[i].pppData1 = ReturnNull \/ task[i].pppData2 = ReturnNull
           THEN /\ page' = [page EXCEPT !.error = Value("noPPPData"), !.isLoading = FALSE]
                /\ task' = [task EXCEPT ![i] = [pc |-> "done", values |-> values,
                                                outcome |-> "noPPPData"]]
           ELSE /\ page' = [page EXCEPT
                       !.result = Value(
                           [equivalentAmount |->
                                Times(values.amount,
                                      PPPRatio(task[i].pppData1, task[i].pppData2)),
                            currency1 |-> task[i].currencyData1,
                            currency2 |-> task[i].currencyData2,
                            country1Name |-> country1Info[1].name,
                            country2Name |-> country2Info[1].name,
                            year |-> values.year,
                            baseAmount |-> values.amount]),
                       !.resultOf = i,
                       !.isFetchingHistoricalData = TRUE,
                       !.historicalData = Null,
                       !.historicalOf = 0,
                       !.isLoading = FALSE]
                /\ task' = [task EXCEPT ![i] =
                       [pc |-> "awaitHistorical", values |-> values,
                        pppData1 |-> task[i].pppData1, pppData2 |-> task[i].pppData2,
                        baseAmount |-> values.amount,
                        label |-> [symbol1 |-> task[i].currencyData1,
                                   baseAmount |-> values.amount,
                                   name1 |-> country1Info[1].name,
                                   name2 |-> country2Info[1].name],
                        history1 |-> ReadCache([op |-> "getHistoricalPPPData",
                                                countryCode |-> values.country1]).v,
                        history2 |-> ReadCache([op |-> "getHistoricalPPPData",
                                                countryCode |-> values.country2]).v]]
    /\ UNCHANGED <<pppDataCache, historicalDataCache, countriesCache, cachedLatestYear,
                   dataLastUpdatedTimestamp, isFetchingData, fetchPromise, attempt, caller,
                   remote, writtenBy, ended, attemptLog>>

\* page.tsx lines 220-256: the two series have arrived
HistoricalResumes(i) ==
    /\ task[i].pc = "awaitHistorical"
    /\ LET combinedData == CombinedData(task[i].history1, task[i].history2,
                                        task[i].baseAmount, task[i].label)
       IN  /\ page' = [page EXCEPT
                  !.historicalData = IF Len(combinedData) > 0 THEN Value(combinedData)
                                     ELSE @,
                  !.historicalOf = IF Len(combinedData) > 0 THEN i ELSE @,
                  !.isFetchingHistoricalData = FALSE]
           /\ task' = [task EXCEPT ![i] =
                  [pc |-> "done", values |-> task[i].values, outcome |-> "result",
                   pppData1 |-> task[i].pppData1, pppData2 |-> task[i].pppData2,
                   history1 |-> task[i].history1, history2 |-> task[i].history2,
                   combinedData |-> combinedData]]
    /\ UNCHANGED <<pppDataCache, historicalDataCache, countriesCache, cachedLatestYear,
                   dataLastUpdatedTimestamp, isFetchingData, fetchPromise, attempt, caller,
                   remote, writtenBy, ended, attemptLog>>

-----------------------------------------------------------------------------
(* Specifications.                                                         *)

SubCaches == {"pppDataCache", "historicalDataCache", "countriesCache", "cachedLatestYear",
              "dataLastUpdatedTimestamp"}

\* lines 49-56: the module as loaded
InitModule ==
    /\ pppDataCache = Null
    /\ historicalDataCache = Null
    /\ countriesCache = Null
    /\ cachedLatestYear = Null
    /\ dataLastUpdatedTimestamp = Null
    /\ isFetchingData = FALSE
    /\ fetchPromise = NoPromise
    /\ attempt = [k \in Attempts |-> Unstarted]
    /\ caller = [p \in Callers |-> IdleCaller]
    /\ writtenBy = [c \in SubCaches |-> 0]
    /\ ended = 0
    /\ attemptLog = [k \in Attempts |-> [epoch |-> -1, downloads |-> 0, parses |-> 0]]

Step(P, R) ==
    \/ \E p \in P, req \in R : Call(p, req)
    \/ \E p \in P : Resume(p)
    \/ \E p \in P : Return(p)
    \/ \E k \in Attempts : FetchSettles(k)
    \/ \E k \in Attempts : ArrayBufferSettles(k)
    \/ \E k \in Attempts : CurrencyResolves(k)
    \/ \E k \in Attempts : Commit(k)

\* concurrent callers; each download returns any workbook of the samples
Init == InitModule /\ remote = SampleWorkbooks /\ page = PageInitial
        /\ task = [i \in Submits |-> NoTask]

Next == Step(Callers, SampleRequests)

Spec == Init /\ [][Next]_vars

\* the concurrency specification under the scheduling of the runtime: a
\* download that was issued settles, a body that was requested arrives, a
\* currency lookup resolves, and the continuation of a settled promise runs
Fairness ==
    /\ \A k \in Attempts :
           /\ WF_vars(FetchSettles(k))
           /\ WF_vars(ArrayBufferSettles(k))
           /\ WF_vars(CurrencyResolves(k))
           /\ WF_vars(Commit(k))
    /\ \A p \in Callers : WF_vars(Resume(p))

SpecLive == Init /\ [][Next]_vars /\ Fairness

\* one caller; the download returns one workbook, any of the enumerated grids
InitParse == InitModule /\ remote \in {{wb} : wb \in GridWorkbooks} /\ page = PageInitial
             /\ task = [i \in Submits |-> NoTask]

NextParse == Step({1}, Requests)

SpecParse == InitParse /\ [][NextParse]_vars

\* one caller; the download returns one workbook, any of the lists of sheet names
InitSheets == InitModule /\ remote \in {{wb} : wb \in SheetWorkbooks} /\ page = PageInitial
              /\ task = [i \in Submits |-> NoTask]

NextSheets == Step({1}, Requests)

SpecSheets == InitSheets /\ [][NextSheets]_vars

\* one caller; the download returns one workbook, any of the header workbooks
InitHeader == InitModule /\ remote \in {{wb} : wb \in HeaderWorkbooks} /\ page = PageInitial
              /\ task = [i \in Submits |-> NoTask]

NextHeader == Step({1}, Requests)

SpecHeader == InitHeader /\ [][NextHeader]_vars

\* the steps of the server that are not calls
ServerStep ==
    \/ \E p \in Callers : Resume(p)
    \/ \E k \in Attempts : FetchSettles(k)
    \/ \E k \in Attempts : ArrayBufferSettles(k)
    \/ \E k \in Attempts : CurrencyResolves(k)
    \/ \E k \in Attempts : Commit(k)

\* the page is opened once; the download returns one of the page workbooks
InitPage == InitModule /\ remote \in {{wb} : wb \in PageWorkbooks} /\ page = PageInitial
            /\ task = [i \in Submits |-> NoTask]

NextPage ==
    \/ ServerStep
    \/ Mount
    \/ InitialDataArrives
    \/ \E i \in Submits : \E values \in FormValues : Submit(i, values)
    \/ \E i \in Submits : SubmitResumes(i)
    \/ \E i \in Submits : HistoricalResumes(i)

SpecPage == InitPage /\ [][NextPage]_vars

-----------------------------------------------------------------------------
(* The fetch coordinator: single flight, failure and retry.                *)

Empty ==
    /\ pppDataCache.isNull
    /\ historicalDataCache.isNull
    /\ countriesCache.isNull
    /\ cachedLatestYear.isNull
    /\ dataLastUpdatedTimestamp.isNull

Populated ==
    /\ ~pppDataCache.isNull
    /\ ~historicalDataCache.isNull
    /\ ~countriesCache.isNull
    /\ ~dataLastUpdatedTimestamp.isNull

\* the caller went through fetchAndCachePPPData and awaits (or awaited) attempt k
Awaits(p, k) == caller[p].pc # "idle" /\ caller[p].awaits = k

\* C1: single flight.  Every caller that entered fetchAndCachePPPData while
\* the cache was empty awaits the one attempt that was started in the window
\* (between two attempt ends) in which it called: no second download is
\* started in that window, that attempt has issued exactly one download and
\* has parsed at most once (exactly once when it got as far as its commit).
SingleFlight ==
    \A p \in Callers : \A k \in Attempts :
        Awaits(p, k) =>
            /\ {j \in Attempts : attemptLog[j].epoch = caller[p].epoch} = {k}
            /\ attemptLog[k].downloads = 1
            /\ attemptLog[k].parses <= 1
            /\ attempt[k].stage \in {"awaitCurrency", "fulfilled"} => attemptLog[k].parses = 1

\* two callers have returned from the same committed attempt
SingleFlightWitness ==
    \E p \in Callers : \E q \in Callers \ {p} : \E k \in Attempts :
        /\ caller[p].pc = "returned" /\ Awaits(p, k)
        /\ caller[q].pc = "returned" /\ Awaits(q, k)
        /\ attempt[k].stage = "fulfilled"
        /\ attemptLog[k].downloads = 1 /\ attemptLog[k].parses = 1

\* results that stand for "nothing": the empty list and none
EmptyOrNone == {ReturnList(<<>>), ReturnNull}

\* C2: shared outcome.  A caller that has returned after awaiting attempt k
\* returned empty/none when k failed, and when k succeeded it returned what
\* its operation reads from the generation k committed (which is the one the
\* cache still holds); so no two waiters of k differ in success or failure.
SharedOutcome ==
    \A p \in Callers : \A k \in Attempts :
        (caller[p].pc = "returned" /\ Awaits(p, k)) =>
            /\ attempt[k].stage \in {"fulfilled", "rejected"}
            /\ attempt[k].stage = "rejected" => caller[p].result \in EmptyOrNone
            /\ attempt[k].stage = "fulfilled" =>
                   /\ caller[p].gen = k
                   /\ Generation = k
                   /\ caller[p].result = ReadCache(caller[p].req)

\* after an attempt that failed, two waiters of one committed attempt have
\* returned data
SharedOutcomeWitness ==
    \E p \in Callers : \E q \in Callers \ {p} : \E k \in Attempts :
        /\ caller[p].pc = "returned" /\ Awaits(p, k)
        /\ caller[q].pc = "returned" /\ Awaits(q, k)
        /\ attempt[k].stage = "fulfilled"
        /\ caller[p].req.op = "getCountries" /\ caller[p].result.v # <<>>
        /\ caller[q].req.op = "getPPPData" /\ caller[q].result.t = "PPPData"
        /\ \E j \in Attempts : attempt[j].stage = "rejected"

\* C3: at most one population is in flight.
AtMostOneInFlight == Cardinality({k \in Attempts : Pending(k)}) <= 1

\* a second attempt is in flight after the first one has ended, with a
\* caller waiting for it
AtMostOneInFlightWitness ==
    \E k \in Attempts : \E j \in Attempts : \E p \in Callers :
        /\ j # k
        /\ attempt[j].stage = "rejected"
        /\ Pending(k)
        /\ Awaits(p, k)

\* C4: when an attempt fails, the step that ends it leaves the cache empty,
\* no fetch marked in progress and no handle of the failed attempt stored.
FailureLeavesEmpty ==
    [][\A k \in Attempts :
          (attempt[k].stage # "rejected" /\ attempt'[k].stage = "rejected") =>
              /\ Empty'
              /\ ~isFetchingData'
              /\ fetchPromise' = NoPromise]_vars

\* an attempt has failed in its parse pass and the state is empty
FailureLeavesEmptyWitness ==
    \E k \in Attempts :
        /\ attempt[k].stage = "rejected"
        /\ attemptLog[k].parses = 1
        /\ Empty /\ ~isFetchingData /\ fetchPromise = NoPromise

\* C5: retry.  Once an attempt has failed and nothing is in flight, a call
\* that needs the cache starts an attempt that had not been started before,
\* with its own download; and a caller that awaited an attempt that succeeded
\* after an earlier failure has returned what its operation reads from the
\* populated cache of that attempt.
RetryAfterFailure ==
    /\ [][\A p \in Callers :
             (/\ caller[p].pc = "idle"
              /\ caller'[p].pc = "await"
              /\ \E j \in Attempts : attempt[j].stage = "rejected"
              /\ \A j \in Attempts : ~Pending(j))
             => /\ caller'[p].awaits \in Attempts
                /\ attempt[caller'[p].awaits].stage = "unstarted"
                /\ attempt'[caller'[p].awaits].stage = "awaitFetch"
                /\ attemptLog'[caller'[p].awaits].downloads = 1
                /\ isFetchingData']_vars
    /\ [](\A p \in Callers : \A k \in Attempts :
             (/\ caller[p].pc = "returned" /\ Awaits(p, k)
              /\ attempt[k].stage = "fulfilled"
              /\ \E j \in Attempts : attempt[j].stage = "rejected")
             => /\ Populated
                /\ caller[p].gen = k
                /\ caller[p].result = ReadCache(caller[p].req))

\* after a failed attempt, a caller has data from the attempt it started next
RetryAfterFailureWitness ==
    \E p \in Callers : \E k \in Attempts : \E j \in Attempts :
        /\ attempt[j].stage = "rejected"
        /\ attemptLog[j].epoch < attemptLog[k].epoch
        /\ attempt[k].stage = "fulfilled"
        /\ caller[p].pc = "returned" /\ Awaits(p, k)
        /\ caller[p].req.op = "getPPPData"
        /\ caller[p].result.t = "PPPData"

\* C6: atomic commit.  The sub-caches are all absent, or countries,
\* yearTable, historical and sourceTimestamp are all present and were all
\* assigned by the same attempt, one that committed; latestYear is present
\* only then and comes from that attempt too; a caller that returned data
\* read it from a committed generation.
AtomicCommit ==
    /\ Empty \/ Populated
    /\ Populated =>
           /\ \A c \in SubCaches : writtenBy[c] = writtenBy.pppDataCache
           /\ writtenBy.pppDataCache \in Attempts
           /\ attempt[writtenBy.pppDataCache].stage = "fulfilled"
    /\ \A p \in Callers :
           (caller[p].pc = "returned" /\ caller[p].result \notin EmptyOrNone) =>
               /\ caller[p].gen \in Attempts
               /\ attempt[caller[p].gen].stage = "fulfilled"

\* a workbook without a date row has been committed and its time stamp read
AtomicCommitWitness ==
    \E p \in Callers :
        /\ Populated
        /\ dataLastUpdatedTimestamp.v = FallbackTimestamp
        /\ caller[p].pc = "returned"
        /\ caller[p].req.op = "getDataLastUpdatedTimestamp"
        /\ caller[p].result = ReturnString(FallbackTimestamp)

\* C7: Populated is terminal.  Once an attempt has committed, the cache stays
\* populated with what that attempt assigned, no attempt is in flight and no
\* attempt has been started after it.
PopulatedIsTerminal ==
    \A k \in Attempts :
        attempt[k].stage = "fulfilled" =>
            /\ Populated
            /\ \A c \in SubCaches : writtenBy[c] = k
            /\ \A j \in Attempts : ~Pending(j)
            /\ \A j \in Attempts : attemptLog[j].epoch <= attemptLog[k].epoch

\* a workbook without year columns is committed (latestYear none) and both
\* callers have been served from the cache, one of them the latest year
PopulatedIsTerminalWitness ==
    \E p \in Callers : \E q \in Callers \ {p} :
        /\ Populated
        /\ cachedLatestYear.isNull
        /\ caller[p].pc = "returned" /\ caller[p].via = "cache"
        /\ caller[p].req.op = "getLatestAvailableYear"
        /\ caller[p].result = ReturnNull
        /\ caller[q].pc = "returned" /\ caller[q].via = "cache"
        /\ caller[q].req.op = "getCountries"

\* C8: graceful degradation.  No query operation throws, and an operation
\* whose attempt failed returns the empty list (getCountries,
\* getHistoricalPPPData) or none (the other three).
GracefulDegradation ==
    \A p \in Callers :
        caller[p].pc = "returned" =>
            /\ caller[p].result # Thrown
            /\ \A k \in Attempts :
                   (Awaits(p, k) /\ attempt[k].stage = "rejected") =>
                       caller[p].result =
                           IF caller[p].req.op \in {"getCountries", "getHistoricalPPPData"}
                           THEN ReturnList(<<>>)
                           ELSE ReturnNull

\* two callers of one failed attempt have returned none and the empty list
GracefulDegradationWitness ==
    \E p \in Callers : \E q \in Callers \ {p} : \E k \in Attempts :
        /\ attempt[k].stage = "rejected"
        /\ caller[p].pc = "returned" /\ Awaits(p, k)
        /\ caller[p].req.op = "getPPPData" /\ caller[p].result = ReturnNull
        /\ caller[q].pc = "returned" /\ Awaits(q, k)
        /\ caller[q].req.op = "getHistoricalPPPData" /\ caller[q].result = ReturnList(<<>>)

-----------------------------------------------------------------------------
(* The committed tables against the sheet they were parsed from.           *)

\* the sheet the download served (one workbook under SpecParse)
ServedSheet == Grid(CHOOSE wb \in remote : TRUE)

ServedYearColumns == YearColumns(Headers(ServedSheet))

\* the data rows of the served sheet that carry the country code, in sheet order
RowsOfCountry(countryCode) ==
    LET jsonData == ServedSheet
        headers == Headers(jsonData)
        dataRows == Slice(jsonData, DataStartIndexRaw(jsonData) + 1, Len(jsonData))
        ni == CountryNameIndex(headers)
        ci == CountryCodeIndex(headers)
        Carries(i) ==
            /\ Len(dataRows[i]) > Max(ni, ci)
            /\ Trim(StringOf(At(dataRows[i], ci))) = countryCode
            /\ IsValidRow(Trim(StringOf(At(dataRows[i], ni))), countryCode)
        picked == {i \in 1..Len(dataRows) : Carries(i)}
        Nth(k) == CHOOSE i \in picked : Cardinality({j \in picked : j < i}) = k - 1
    IN  [k \in 1..Cardinality(picked) |-> dataRows[Nth(k)]]

\* the year is the header of a year column of the served sheet
RecognizedYear(year) ==
    \E i \in 1..Len(ServedYearColumns) : ParseInt(ServedYearColumns[i].header) = year

\* the cell of a row in the year's column
CellOf(row, year) == At(row, YearIndex(ServedYearColumns, year))

\* C9: after a successful population getPPPData(code, year) returns the
\* value of the cell of the country's row (the first row that carries the
\* code) in the year's column when that cell is a valid factor, and none when
\* the year is not recognized, the country is unknown or the cell is not a
\* valid factor.
FactorIsCellOfCountryRow ==
    \A p \in Callers :
        (/\ caller[p].pc = "returned"
         /\ caller[p].req.op = "getPPPData"
         /\ caller[p].gen # 0)
        => LET countryCode == caller[p].req.countryCode
               year == caller[p].req.year
               rows == RowsOfCountry(countryCode)
           IN  caller[p].result =
                   IF /\ RecognizedYear(year)
                      /\ rows # <<>>
                      /\ IsValidFactor(CellOf(rows[1], year))
                   THEN ReturnPPPData(countryCode, CellOf(rows[1], year).n, year)
                   ELSE ReturnNull

\* C10: in every Populated state every factor of the year table and of every
\* historical series is greater than 0 and is the value of a valid numeric
\* cell of a row of that country in that year's column (so a cell that is 0,
\* negative, NaN or not a number produces no entry), and no returned factor
\* is <= 0.
PositiveFactors ==
    /\ Populated =>
           /\ \A year \in DOMAIN pppDataCache.v :
                  \A countryCode \in DOMAIN pppDataCache.v[year] :
                      /\ pppDataCache.v[year][countryCode] > 0
                      /\ \E i \in 1..Len(RowsOfCountry(countryCode)) :
                             LET cell == CellOf(RowsOfCountry(countryCode)[i], year)
                             IN  /\ cell.t = "number" /\ ~cell.nan /\ cell.n > 0
                                 /\ cell.n = pppDataCache.v[year][countryCode]
           /\ \A countryCode \in DOMAIN historicalDataCache.v :
                  \A j \in 1..Len(historicalDataCache.v[countryCode]) :
                      LET point == historicalDataCache.v[countryCode][j]
                      IN  /\ point.pppConversionFactor > 0
                          /\ \E i \in 1..Len(RowsOfCountry(countryCode)) :
                                 LET cell == CellOf(RowsOfCountry(countryCode)[i], point.year)
                                 IN  /\ cell.t = "number" /\ ~cell.nan /\ cell.n > 0
                                     /\ cell.n = point.pppConversionFactor
    /\ \A p \in Callers :
           caller[p].pc = "returned" =>
               /\ caller[p].result.t = "PPPData" => caller[p].result.pppConversionFactor > 0
               /\ caller[p].result.t = "list" /\ caller[p].req.op = "getHistoricalPPPData" =>
                      \A j \in 1..Len(caller[p].result.v) :
                          caller[p].result.v[j].pppConversionFactor > 0

\* rows [Testland, TST, 50, blank] and [america, USA, 0, ".."] are committed:
\* the only factor is TST's of 1991, and TST's series has been returned
PositiveFactorsWitness ==
    /\ remote = {Descriptor(2, 2, 1, <<1, 3>>)}
    /\ Populated
    /\ DOMAIN pppDataCache.v = {1991}
    /\ DOMAIN pppDataCache.v[1991] = {C_TST}
    /\ historicalDataCache.v[C_USA] = <<>>
    /\ caller[1].pc = "returned"
    /\ caller[1].req.op = "getHistoricalPPPData"
    /\ caller[1].result = ReturnList(<<[year |-> 1991, pppConversionFactor |-> 50]>>)

\* C11: for every country code the series returned by getHistoricalPPPData
\* is sorted strictly ascending by year (no year appears twice), for every
\* workbook that parses successfully.
SeriesStrictlyAscending ==
    /\ Populated =>
           \A countryCode \in DOMAIN historicalDataCache.v :
               \A i \in 1..Len(historicalDataCache.v[countryCode]) :
                   \A j \in (i + 1)..Len(historicalDataCache.v[countryCode]) :
                       historicalDataCache.v[countryCode][i].year
                           < historicalDataCache.v[countryCode][j].year
    /\ \A p \in Callers :
           (caller[p].pc = "returned" /\ caller[p].req.op = "getHistoricalPPPData") =>
               \A i \in 1..Len(caller[p].result.v) :
                   \A j \in (i + 1)..Len(caller[p].result.v) :
                       caller[p].result.v[i].year < caller[p].result.v[j].year


\* the country codes the served sheet's accepted rows carry more than once
NoRepeatedCode ==
    \A countryCode \in DOMAIN historicalDataCache.v : Len(RowsOfCountry(countryCode)) <= 1

\* C12: in every Populated state (year, f) is a point of the historical
\* series of a country exactly when the year table holds factor f for that
\* country in that year.
TablesConsistent ==
    Populated =>
        /\ \A countryCode \in DOMAIN historicalDataCache.v :
               \A j \in 1..Len(historicalDataCache.v[countryCode]) :
                   LET point == historicalDataCache.v[countryCode][j]
                   IN  LookupFactor(countryCode, point.year)
                           = ReturnPPPData(countryCode, point.pppConversionFactor, point.year)
        /\ \A year \in DOMAIN pppDataCache.v :
               \A countryCode \in DOMAIN pppDataCache.v[year] :
                   /\ countryCode \in DOMAIN historicalDataCache.v
                   /\ \E j \in 1..Len(historicalDataCache.v[countryCode]) :
                          historicalDataCache.v[countryCode][j]
                              = [year |-> year,
                                 pppConversionFactor |-> pppDataCache.v[year][countryCode]]


\* the data rows of the served sheet
ServedDataRows ==
    Slice(ServedSheet, DataStartIndexRaw(ServedSheet) + 1, Len(ServedSheet))

\* the cell is blank: missing, or a string of white space only
IsBlankCell(cell) == cell.t = "undefined" \/ (cell.t = "string" /\ Trim(cell.s) = <<>>)

\* C13: after a successful population every record of getCountries() has a
\* 3-character code and a non-empty name, and comes from a data row whose
\* name cell is not blank and holds that name and whose trimmed code is the
\* record's code.
OnlyValidRowsListed ==
    Populated =>
        \A i \in 1..Len(countriesCache.v) :
            /\ Len(countriesCache.v[i].code) = 3
            /\ countriesCache.v[i].name # <<>>
            /\ \E r \in 1..Len(ServedDataRows) :
                   LET row == ServedDataRows[r]
                       nameCell == At(row, CountryNameIndex(Headers(ServedSheet)))
                       codeCell == At(row, CountryCodeIndex(Headers(ServedSheet)))
                   IN  /\ ~IsBlankCell(nameCell)
                       /\ Trim(StringOf(nameCell)) = countriesCache.v[i].name
                       /\ Trim(StringOf(codeCell)) = countriesCache.v[i].code


\* the greatest year that has a factor in the year table, none when it has no year
LatestAcceptedYear ==
    IF DOMAIN pppDataCache.v = {} THEN ReturnNull
    ELSE ReturnNumber(CHOOSE y \in DOMAIN pppDataCache.v :
                          \A z \in DOMAIN pppDataCache.v : z <= y)

\* C14: after a successful population getLatestAvailableYear() returns the
\* greatest year for which at least one factor was accepted into the year
\* table, and none when no factor was accepted.
LatestYearIsLatestAccepted ==
    /\ Populated => ReadCache([op |-> "getLatestAvailableYear"]) = LatestAcceptedYear
    /\ \A p \in Callers :
           (/\ caller[p].pc = "returned"
            /\ caller[p].req.op = "getLatestAvailableYear"
            /\ Populated) => caller[p].result = LatestAcceptedYear


-----------------------------------------------------------------------------
(* The consumer's calculations.                                            *)

\* the form can be submitted only over a populated cache
SubmitsOverPopulated == CanSubmit => Populated /\ ~NeedsFetch("getPPPData")

\* C15: a result is on the page only when getPPPData returns a factor for
\* both countries of the submitted values in the submitted year; the divisor,
\* the factor of country 1, is not 0; and the result is
\* amount * (factor of country 2 / factor of country 1).
CalculationIsRatio ==
    ~page.result.isNull =>
        LET values == task[page.resultOf].values
            pppData1 == LookupFactor(values.country1, values.year)
            pppData2 == LookupFactor(values.country2, values.year)
            equivalentAmount == page.result.v.equivalentAmount
        IN  /\ page.resultOf \in Submits
            /\ pppData1.t = "PPPData" /\ pppData2.t = "PPPData"
            /\ pppData1.pppConversionFactor # 0
            /\ equivalentAmount.den > 0
            /\ equivalentAmount.num * pppData1.pppConversionFactor
                   = values.amount * pppData2.pppConversionFactor * equivalentAmount.den
            /\ page.result.v.year = values.year
            /\ page.result.v.baseAmount = values.amount

\* amount 100, factor 20 for country 1 and 4 for country 2: the result is 20
CalculationIsRatioWitness ==
    /\ ~page.result.isNull
    /\ task[page.resultOf].values =
           [country1 |-> C_AAA, country2 |-> C_BBB, amount |-> 100, year |-> 1991]
    /\ LookupFactor(C_AAA, 1991).pppConversionFactor = 20
    /\ LookupFactor(C_BBB, 1991).pppConversionFactor = 4
    /\ page.result.v.equivalentAmount = [num |-> 20, den |-> 1]


\* the years of the points of a series
YearsIn(series) == {series[j].year : j \in 1..Len(series)}

\* C16: the historical comparison built for a calculation has one point for
\* exactly the years in which both countries have a factor in their
\* historical series, in ascending year order, and each point's value is
\* baseAmount * (factor of country 2 / factor of country 1) for factors the
\* two series hold for that year; the chart data on the page is such a
\* comparison.
ComparisonOverCommonYears ==
    /\ \A i \in Submits :
           (task[i].pc = "done" /\ task[i].outcome = "result") =>
               LET values == task[i].values
                   series1 == LookupHistory(values.country1).v
                   series2 == LookupHistory(values.country2).v
                   combinedData == task[i].combinedData
               IN  /\ YearsIn(combinedData) = YearsIn(series1) \cap YearsIn(series2)
                   /\ \A j \in 1..Len(combinedData) : \A k \in (j + 1)..Len(combinedData) :
                          combinedData[j].year < combinedData[k].year
                   /\ \A j \in 1..Len(combinedData) :
                          \E a \in 1..Len(series1) : \E b \in 1..Len(series2) :
                              /\ series1[a].year = combinedData[j].year
                              /\ series2[b].year = combinedData[j].year
                              /\ combinedData[j].equivalentAmount.den > 0
                              /\ combinedData[j].equivalentAmount.num
                                     * series1[a].pppConversionFactor
                                 = values.amount * series2[b].pppConversionFactor
                                     * combinedData[j].equivalentAmount.den
    /\ ~page.historicalData.isNull =>
           /\ page.historicalOf \in Submits
           /\ task[page.historicalOf].pc = "done"
           /\ page.historicalData.v = task[page.historicalOf].combinedData

\* 100 of Aland (factors 20 and 10) in Testland (factor 50 in 1991 only):
\* the chart holds the single point (1991, 250)
ComparisonOverCommonYearsWitness ==
    /\ ~page.historicalData.isNull
    /\ task[page.historicalOf].values.country1 = C_AAA
    /\ task[page.historicalOf].values.country2 = C_TST
    /\ task[page.historicalOf].values.amount = 100
    /\ YearsIn(LookupHistory(C_AAA).v) = {1991, 1992}
    /\ YearsIn(LookupHistory(C_TST).v) = {1991}
    /\ Len(page.historicalData.v) = 1
    /\ page.historicalData.v[1].year = 1991
    /\ page.historicalData.v[1].equivalentAmount = [num |-> 250, den |-> 1]


-----------------------------------------------------------------------------
(* Rows and sheets.                                                        *)

\* C17: when several data rows carry one country code the first of them
\* wins: the listed name is the first row's name, a factor of the year table
\* is the first row's cell of that year (and there is none when that cell is
\* not a valid factor), and every point of the series is a cell of the first
\* row.
FirstRowWins ==
    Populated =>
        \A countryCode \in DOMAIN historicalDataCache.v :
            LET first == RowsOfCountry(countryCode)[1]
            IN  /\ \A i \in 1..Len(countriesCache.v) :
                       countriesCache.v[i].code = countryCode =>
                           countriesCache.v[i].name
                               = Trim(StringOf(At(first,
                                                  CountryNameIndex(Headers(ServedSheet)))))
                /\ \A year \in DOMAIN pppDataCache.v :
                       countryCode \in DOMAIN pppDataCache.v[year] =>
                           /\ IsValidFactor(CellOf(first, year))
                           /\ pppDataCache.v[year][countryCode] = CellOf(first, year).n
                /\ \A j \in 1..Len(historicalDataCache.v[countryCode]) :
                       LET point == historicalDataCache.v[countryCode][j]
                       IN  /\ IsValidFactor(CellOf(first, point.year))
                           /\ point.pppConversionFactor = CellOf(first, point.year).n


\* a data row is valid: its name cell is not blank and its trimmed code has 3 characters
RowIsValid(row) ==
    /\ ~IsBlankCell(At(row, CountryNameIndex(Headers(ServedSheet))))
    /\ Len(Trim(StringOf(At(row, CountryCodeIndex(Headers(ServedSheet)))))) = 3

\* the served workbook parses without error
ServedParses == Parsed[CHOOSE wb \in remote : TRUE].error = "none"

\* C18: when the download and the parse succeed but no data row is valid,
\* the attempt is not rejected but commits, the cache is then Populated,
\* getCountries() returns the empty list, and no download is started or in
\* flight after the commit.
EmptyResultCommits ==
    (ServedParses /\ \A r \in 1..Len(ServedDataRows) : ~RowIsValid(ServedDataRows[r])) =>
        /\ \A k \in Attempts : attempt[k].stage = "rejected" => attemptLog[k].parses = 0
        /\ \A k \in Attempts :
               attempt[k].stage = "fulfilled" =>
                   /\ Populated
                   /\ ReadCache([op |-> "getCountries"]) = ReturnList(<<>>)
                   /\ \A j \in Attempts : ~Pending(j)
                   /\ \A j \in Attempts : attemptLog[j].epoch <= attemptLog[k].epoch
        /\ \A p \in Callers :
               (/\ caller[p].pc = "returned" /\ caller[p].req.op = "getCountries"
                /\ caller[p].gen # 0) => caller[p].result = ReturnList(<<>>)


\* the sheet names of the served workbook
ServedSheetNames == SheetNamePool[(CHOOSE wb \in remote : TRUE).names]

\* the sheet a list of names designates: "Data" when present, else the first
\* sheet whose name does not contain "metadata" in any case, else the first
DesignatedSheet(names) ==
    IF \E i \in 1..Len(names) : names[i] = STR_Data
    THEN CHOOSE i \in 1..Len(names) : names[i] = STR_Data
    ELSE IF \E i \in 1..Len(names) : ~Includes(ToLowerCase(names[i]), STR_metadata)
    THEN CHOOSE i \in 1..Len(names) :
             /\ ~Includes(ToLowerCase(names[i]), STR_metadata)
             /\ \A j \in 1..(i - 1) : Includes(ToLowerCase(names[j]), STR_metadata)
    ELSE 1

\* the country codes listed after parsing the i-th sheet of the served workbook
CodesOfSheet(i) == IF i = 1 THEN {C_TST} ELSE {SheetCode(i)}

\* C19: for every non-empty list of sheet names the sheet that is parsed is
\* "Data" when present, else the first sheet whose name does not contain
\* "metadata", else the first sheet; the committed countries are those of
\* that sheet.
DesignatedSheetIsParsed ==
    ServedSheetNames # <<>> =>
        \A k \in Attempts :
            /\ attemptLog[k].parses = 1 =>
                   /\ SheetFound(Workbook(CHOOSE wb \in remote : TRUE))
                   /\ SelectSheetName(Workbook(CHOOSE wb \in remote : TRUE))
                          = ServedSheetNames[DesignatedSheet(ServedSheetNames)]
            /\ attempt[k].stage = "fulfilled" =>
                   {countriesCache.v[i].code : i \in 1..Len(countriesCache.v)}
                       = CodesOfSheet(DesignatedSheet(ServedSheetNames))

\* C20: the parse fails for want of a data sheet exactly when the workbook
\* has no sheets, and the cache is then Empty; with at least one sheet a
\* sheet is selected and the parse goes on (here: to the commit, every sheet
\* having a header row).
NoSheetOnlyWithoutSheets ==
    \A k \in Attempts :
        attemptLog[k].parses = 1 =>
            /\ Parsed[CHOOSE wb \in remote : TRUE].error = "NoDataSheet"
                   <=> ServedSheetNames = <<>>
            /\ attempt[k].stage = "rejected" <=> ServedSheetNames = <<>>
            /\ attempt[k].stage = "rejected" => Empty


-----------------------------------------------------------------------------
(* Header row, year columns, countries, time stamp.                        *)

\* the first cell of the row, trimmed, is "Country Name"
StartsWithCountryName(row) == Trim(StringOf(At(row, 0))) = STR_CountryName

\* 0-based index of the first such row among the first ScanBound rows, or -1
HeaderWithinBound == FindIndex(Slice(ServedSheet, 0, ScanBound), StartsWithCountryName)

\* the codes of the rows after the 0-based index i that pass the row test
CodesAfter(i) ==
    LET rows == Slice(ServedSheet, i + 1, Len(ServedSheet))
        headers == [j \in 1..Len(ServedSheet[i + 1]) |->
                        Trim(StringOf(ServedSheet[i + 1][j]))]
        ni == FindIndex(headers, IsCountryNameHeader)
        ci == FindIndex(headers, IsCountryCodeHeader)
    IN  {Trim(StringOf(At(rows[r], ci))) :
             r \in {q \in 1..Len(rows) :
                        /\ Len(rows[q]) > Max(ni, ci)
                        /\ IsValidRow(Trim(StringOf(At(rows[q], ni))),
                                      Trim(StringOf(At(rows[q], ci))))}}

\* C21: the header row is the first row whose first cell trimmed is
\* "Country Name" and the data rows are the rows after it; when the first
\* ScanBound (10) rows hold no such row the attempt fails and the cache is
\* Empty.
HeaderFoundWithinBound ==
    \A k \in Attempts :
        attemptLog[k].parses = 1 =>
            IF HeaderWithinBound = -1
            THEN attempt[k].stage = "rejected" /\ Empty
            ELSE /\ attempt[k].stage # "rejected"
                 /\ attempt[k].stage = "fulfilled" =>
                        {countriesCache.v[i].code : i \in 1..Len(countriesCache.v)}
                            = CodesAfter(HeaderWithinBound)


\* C22: a header column is a year column exactly when its trimmed header is
\* four digits with a value >= 1990; in every Populated state every year key
\* of the year table, every year of every series and the latest year (when
\* present) is such a header's value, so >= 1990, and every factor is a cell
\* of such a column.
YearsFromNineteenNinety ==
    Populated =>
        LET headers == Headers(ServedSheet)
            IsYear(j) == /\ Len(headers[j]) = 4
                         /\ \A i \in 1..4 : headers[j][i] \in
                                {"0", "1", "2", "3", "4", "5", "6", "7", "8", "9"}
                         /\ ParseInt(headers[j]) >= MinYear
            yearColumnsOfSheet == {j \in 1..Len(headers) : IsYear(j)}
            yearsOfSheet == {ParseInt(headers[j]) : j \in yearColumnsOfSheet}
        IN  /\ {YearColumns(headers)[i].index + 1 : i \in 1..Len(YearColumns(headers))}
                   = yearColumnsOfSheet
            /\ \A year \in DOMAIN pppDataCache.v :
                   /\ year >= MinYear /\ year \in yearsOfSheet
                   /\ \A countryCode \in DOMAIN pppDataCache.v[year] :
                          \E r \in 1..Len(ServedDataRows) : \E j \in yearColumnsOfSheet :
                              /\ ParseInt(headers[j]) = year
                              /\ At(ServedDataRows[r], j - 1).t = "number"
                              /\ At(ServedDataRows[r], j - 1).n
                                     = pppDataCache.v[year][countryCode]
            /\ \A countryCode \in DOMAIN historicalDataCache.v :
                   \A j \in 1..Len(historicalDataCache.v[countryCode]) :
                       /\ historicalDataCache.v[countryCode][j].year >= MinYear
                       /\ historicalDataCache.v[countryCode][j].year \in yearsOfSheet
            /\ ~cachedLatestYear.isNull =>
                   cachedLatestYear.v >= MinYear /\ cachedLatestYear.v \in yearsOfSheet

\* header [Country Name, Country Code, "1989", 1992] over [Other, TST, 60, 70]:
\* the only year is 1992 and the 60 of the 1989 column is nowhere
YearsFromNineteenNinetyWitness ==
    /\ remote = {Descriptor(2, 2, 2, <<2>>)}
    /\ Populated
    /\ DOMAIN pppDataCache.v = {1992}
    /\ pppDataCache.v[1992][C_TST] = 70
    /\ cachedLatestYear = Value(1992)
    /\ caller[1].pc = "returned"
    /\ caller[1].req.op = "getHistoricalPPPData"
    /\ caller[1].result = ReturnList(<<[year |-> 1992, pppConversionFactor |-> 70]>>)


\* C23: in every Populated state no two records of the country list, and of
\* any list getCountries() returned, have the same code.
UniqueCountryCodes ==
    /\ Populated =>
           \A i, j \in 1..Len(countriesCache.v) :
               countriesCache.v[i].code = countriesCache.v[j].code => i = j
    /\ \A p \in Callers :
           (caller[p].pc = "returned" /\ caller[p].req.op = "getCountries") =>
               \A i, j \in 1..Len(caller[p].result.v) :
                   caller[p].result.v[i].code = caller[p].result.v[j].code => i = j

\* two rows with the code TST were parsed and getCountries() returned one record
UniqueCountryCodesWitness ==
    /\ remote = {Descriptor(2, 2, 1, <<1, 2>>)}
    /\ Populated
    /\ Len(countriesCache.v) = 1
    /\ caller[1].pc = "returned"
    /\ caller[1].req.op = "getCountries"
    /\ Len(caller[1].result.v) = 1
    /\ caller[1].result.v[1].code = C_TST

\* C24: in every Populated state the country list, and any list
\* getCountries() returned, is ascending by name under localeCompare,
\* whatever the order of the rows in the sheet.
CountriesSortedByName ==
    /\ Populated =>
           \A i, j \in 1..Len(countriesCache.v) :
               i < j => LocaleCompare(countriesCache.v[i].name, countriesCache.v[j].name) <= 0
    /\ \A p \in Callers :
           (caller[p].pc = "returned" /\ caller[p].req.op = "getCountries") =>
               \A i, j \in 1..Len(caller[p].result.v) :
                   i < j => LocaleCompare(caller[p].result.v[i].name,
                                          caller[p].result.v[j].name) <= 0

\* the sheet lists Testland before america; getCountries() returned america first
CountriesSortedByNameWitness ==
    /\ remote = {Descriptor(2, 2, 1, <<1, 3>>)}
    /\ Populated
    /\ caller[1].pc = "returned"
    /\ caller[1].req.op = "getCountries"
    /\ Len(caller[1].result.v) = 2
    /\ caller[1].result.v[1].code = C_USA
    /\ caller[1].result.v[2].code = C_TST


\* the symbol the currency collaborator has for the code of every record
Enriched(countries) ==
    \A i \in 1..Len(countries) :
        countries[i].currencySymbol = getCurrencyData(countries[i].code)

\* C25: an attempt commits only when the currency lookup of every accepted
\* country has finished, an attempt that waits for lookups never fails, and
\* every record of the committed list and of every list getCountries()
\* returned carries the collaborator's symbol for its code, or none when the
\* collaborator has none.
EnrichmentBeforeCommit ==
    /\ [](/\ Populated => Enriched(countriesCache.v)
          /\ \A p \in Callers :
                 (caller[p].pc = "returned" /\ caller[p].req.op = "getCountries") =>
                     Enriched(caller[p].result.v))
    /\ [][\A k \in Attempts :
              attempt[k].stage = "awaitCurrency" =>
                  /\ attempt'[k].stage # "rejected"
                  /\ attempt'[k].stage = "fulfilled" => attempt[k].currencyFetch = <<>>]_vars

\* getCountries() returned Germany (DEU, in the euro zone) with the euro sign
\* and Testland (TST, unknown to the collaborator) without a symbol
EnrichmentBeforeCommitWitness ==
    /\ Populated
    /\ \E p \in Callers :
           /\ caller[p].pc = "returned"
           /\ caller[p].req.op = "getCountries"
           /\ \E i, j \in 1..Len(caller[p].result.v) :
                  /\ caller[p].result.v[i].code = C_DEU
                  /\ caller[p].result.v[i].currencySymbol = "U+20AC"
                  /\ caller[p].result.v[j].code = C_TST
                  /\ caller[p].result.v[j].currencySymbol = NoSymbol


\* the rows of the served sheet among its first 5 whose first cell is
\* "Last Updated Date" and which have a cell next to it
DatedRows ==
    {i \in 1..Len(Slice(ServedSheet, 0, 5)) :
        /\ At(ServedSheet[i], 0) = Str(STR_LastUpdatedDate)
        /\ At(ServedSheet[i], 1).t # "undefined"}

\* C26: after a successful population the time stamp is the value (as text,
\* trimmed or not) of the cell next to a first-column cell "Last Updated Date"
\* of the first 5 rows when there is such a row, and the fetch-time fallback
\* otherwise; getDataLastUpdatedTimestamp() returns it, and returns none only
\* to a caller whose population attempt failed.
TimestampFromSheetOrFallback ==
    /\ Populated =>
           IF DatedRows # {}
           THEN \E i \in DatedRows :
                    dataLastUpdatedTimestamp.v \in
                        {StringOf(At(ServedSheet[i], 1)), Trim(StringOf(At(ServedSheet[i], 1)))}
           ELSE dataLastUpdatedTimestamp = Value(FallbackTimestamp)
    /\ \A p \in Callers :
           (caller[p].pc = "returned" /\ caller[p].req.op = "getDataLastUpdatedTimestamp") =>
               IF \E k \in Attempts : Awaits(p, k) /\ attempt[k].stage = "rejected"
               THEN caller[p].result = ReturnNull
               ELSE Populated /\ caller[p].result = ReturnString(dataLastUpdatedTimestamp.v)


-----------------------------------------------------------------------------
(* Termination of the query operations.                                    *)

\* C27: every query operation that waits returns: a caller waiting on the
\* handle of an attempt (started by itself or joined) or on the cache is
\* eventually released, whether the attempt commits or resets, given that
\* every download settles.
EveryQueryReturns ==
    \A p \in Callers : (caller[p].pc = "await") ~> (caller[p].pc = "returned")

\* a caller has returned from an attempt that failed while another caller
\* still waits on the handle of that ended attempt
EveryQueryReturnsWitness ==
    \E p \in Callers : \E q \in Callers \ {p} : \E k \in Attempts :
        /\ attempt[k].stage = "rejected"
        /\ Awaits(p, k) /\ caller[p].pc = "returned"
        /\ Awaits(q, k) /\ caller[q].pc = "await"


-----------------------------------------------------------------------------
(* The committed generation as a whole.                                    *)

\* C28: in every Populated state, when the latest year is present every year
\* key of the year table and every year of every series is <= it; when it is
\* none the year table and every series are empty.
LatestYearBoundsData ==
    Populated =>
        IF ~cachedLatestYear.isNull
        THEN /\ \A year \in DOMAIN pppDataCache.v : year <= cachedLatestYear.v
             /\ \A countryCode \in DOMAIN historicalDataCache.v :
                    \A j \in 1..Len(historicalDataCache.v[countryCode]) :
                        historicalDataCache.v[countryCode][j].year <= cachedLatestYear.v
        ELSE /\ DOMAIN pppDataCache.v = {}
             /\ \A countryCode \in DOMAIN historicalDataCache.v :
                    historicalDataCache.v[countryCode] = <<>>

\* the row [Other, TST, 60, 70] under the years 1991 and 1992: the latest year
\* is 1992 and the table and the series hold 1991 and 1992
LatestYearBoundsDataWitness ==
    /\ Populated
    /\ cachedLatestYear = Value(1992)
    /\ DOMAIN pppDataCache.v = {1991, 1992}
    /\ C_TST \in DOMAIN historicalDataCache.v
    /\ Len(historicalDataCache.v[C_TST]) = 2
    /\ historicalDataCache.v[C_TST][2].year = 1992
    /\ caller[1].pc = "returned"
    /\ caller[1].req.op = "getLatestAvailableYear"
    /\ caller[1].result = ReturnNumber(1992)


\* the number of records of the committed country list that carry the code
RecordsOf(countryCode) ==
    Cardinality({i \in 1..Len(countriesCache.v) : countriesCache.v[i].code = countryCode})

\* the country has no factor: none in the year table and no positive number
\* in the column of a year in any of its rows
HasNoFactor(countryCode) ==
    /\ \A year \in DOMAIN pppDataCache.v : countryCode \notin DOMAIN pppDataCache.v[year]
    /\ \A r \in 1..Len(RowsOfCountry(countryCode)) :
           \A i \in 1..Len(ServedYearColumns) :
               LET cell == CellOf(RowsOfCountry(countryCode)[r],
                                  ParseInt(ServedYearColumns[i].header))
               IN  ~(cell.t = "number" /\ ~cell.nan /\ cell.n > 0)

\* C29: in every Populated state every code with a factor in the year table
\* or a key in the historical table is the code of exactly one record of the
\* country list, every record has a key in the historical table, and the
\* series of a listed country is empty (so getHistoricalPPPData returns the
\* empty list for it) only when the country has no valid factor at all.
ReferentialIntegrity ==
    /\ Populated =>
           /\ \A year \in DOMAIN pppDataCache.v :
                  \A countryCode \in DOMAIN pppDataCache.v[year] : RecordsOf(countryCode) = 1
           /\ \A countryCode \in DOMAIN historicalDataCache.v : RecordsOf(countryCode) = 1
           /\ \A i \in 1..Len(countriesCache.v) :
                  /\ countriesCache.v[i].code \in DOMAIN historicalDataCache.v
                  /\ historicalDataCache.v[countriesCache.v[i].code] = <<>>
                         => HasNoFactor(countriesCache.v[i].code)
    /\ \A p \in Callers :
           (/\ caller[p].pc = "returned"
            /\ caller[p].req.op = "getHistoricalPPPData"
            /\ caller[p].gen # 0
            /\ RecordsOf(caller[p].req.countryCode) > 0
            /\ caller[p].result = ReturnList(<<>>))
           => HasNoFactor(caller[p].req.countryCode)

\* Testland (TST) has 50 under "1989", which is no year column, and a blank
\* under 1992: it is listed, its series is empty and getHistoricalPPPData
\* returned the empty list
ReferentialIntegrityWitness ==
    /\ remote = {Descriptor(2, 2, 2, <<1>>)}
    /\ Populated
    /\ RecordsOf(C_TST) = 1
    /\ historicalDataCache.v[C_TST] = <<>>
    /\ caller[1].pc = "returned"
    /\ caller[1].req = [op |-> "getHistoricalPPPData", countryCode |-> C_TST]
    /\ caller[1].gen # 0
    /\ caller[1].result = ReturnList(<<>>)


-----------------------------------------------------------------------------
(* The consumer's chart.                                                   *)

\* page.tsx lines 447-458: the chart is rendered
ChartDisplayed ==
    /\ ~page.result.isNull
    /\ ~page.isLoading
    /\ ~page.isFetchingHistoricalData
    /\ ~page.historicalData.isNull
    /\ Len(page.historicalData.v) > 0

\* C30: the chart that is displayed is the one of the calculation whose
\* result is displayed: its data are the combined series of that
\* submission's country pair and amount, in whatever order the historical
\* fetches of two submissions complete.
ChartBelongsToResult ==
    ChartDisplayed =>
        LET i == page.resultOf
        IN  page.historicalData.v =
                IF task[i].pc = "done" THEN task[i].combinedData
                ELSE CombinedData(task[i].history1, task[i].history2, task[i].baseAmount,
                                  task[i].label)

=============================================================================
